---------------------------- MODULE Spec2Model ----------------------------
(***************************************************************************)
(* A model of vidhubcontrol's device connection core:                      *)
(*   backends/base.py    BackendBase (reactive properties, presets)        *)
(*   backends/telnet.py  TelnetBackendBase / TelnetBackend (Videohub)      *)
(* driven by a device that speaks the Videohub line protocol the way the   *)
(* mocked device of tests/conftest.py does (ACK followed by an echo of the *)
(* command block), and that may also reject a command with NAK.            *)
(*                                                                         *)
(* Python lists are 0-based, TLA+ sequences 1-based: list[i] is seq[i+1].  *)
(* An asyncio task is modelled by a program counter; one action is the     *)
(* code a task runs between two suspension points (await of the socket,    *)
(* of the rendezvous event, of another task, or of asyncio.sleep).         *)
(*                                                                         *)
(* pydispatch (python-dispatch) semantics used by the code:                *)
(*   Property.__set__       no notification when the new value == the old  *)
(*   ObservableList[i] = v  always notifies, with keys=[i]                 *)
(*   list property = value  notifies (no keys) unless value == old         *)
(*   emission_lock(name)    events of `name` are held back; the last one   *)
(*                          is dispatched when the lock is released        *)
(*   Event.__call__         listeners run synchronously in binding order;  *)
(*                          an exception of a listener propagates to the   *)
(*                          code that made the assignment                  *)
(***************************************************************************)
EXTENDS Integers, Sequences, FiniteSets, TLC

\* ------------------------------------------------------------------ bounds
\* The device the model talks to: a DevOutputs x DevInputs router.
DevOutputs == 2
DevInputs == 2
\* Operations on the control surface over a run: granular writes, bulk
\* assignments, set_* calls and recalls.
MaxCmds == 1
\* Routing changes made at the device itself (front panel) over a run.
MaxPanel == 1
\* Sockets opened over a run (the first connect and reconnects).
MaxConns == 2
\* disconnect() calls over a run.
MaxDiscs == 2
\* Transport read/write errors over a run.
MaxErrors == 1
\* get_status() calls over a run.
MaxStatus == 1
\* set_* calls made while an earlier command has not returned.
MaxOverlap == 1
\* Presets of the backend and store_preset calls over a run.
\* malformed blocks the device sends
MaxGarbles == 1
\* monitors of the SmartScope, and sections it sends after the handshake
MaxMonitors == 2
MaxUpdates == 1
MaxPresets == 2
MaxStores == 2
\* External assignments to num_outputs / num_inputs, and the largest value.
MaxResizes == 2
MaxSize == 3

\* ------------------------------------------------------------- vocabulary
None == "None"
ACK == "ACK"
NAK == "NAK"
StateProps == {"crosspoints", "output_labels", "input_labels"}

\* The *_control container that mirrors a state container (base.py:270-275).
ControlOf(prop) ==
    CASE prop = "crosspoints" -> "crosspoint_control"
      [] prop = "output_labels" -> "output_label_control"
      [] prop = "input_labels" -> "input_label_control"

\* The state container a control container issues commands for (base.py:287-292).
StateOf(cprop) ==
    CASE cprop = "crosspoint_control" -> "crosspoints"
      [] cprop = "output_label_control" -> "output_labels"
      [] cprop = "input_label_control" -> "input_labels"

NoEvent == [set |-> FALSE, keys |-> <<>>]

VARIABLES
    \* BackendBase properties (base.py:58-72) and attributes
    connected, prelude_parsed, client, device_id, num_outputs, num_inputs,
    crosspoints, output_labels, input_labels,
    crosspoint_control, output_label_control, input_label_control,
    presets,
    \* TelnetBackendBase attributes (telnet.py:16-23)
    read_enabled, read_coro, current_section, ack_or_nak, response_ready,
    \* pydispatch emission locks of the three state containers
    held, last_event,
    \* asyncio tasks
    cmds, conns, discs, loops,
    \* the device and its transports
    devQueue, devRouting, devOutLabels, devInLabels, opened, closes,
    \* observation: what the listeners of the last step were shown, and
    \* counters of the operations invoked from outside
    seen, counts,
    \* what create_async resolved to: "pending", "obj" or None
    created,
    \* a SmartScopeTelnetBackend, its device and what its read loop has
    \* still to read
    scope

vars == <<connected, prelude_parsed, client, device_id, num_outputs, num_inputs,
          crosspoints, output_labels, input_labels,
          crosspoint_control, output_label_control, input_label_control,
          presets, read_enabled, read_coro, current_section, ack_or_nak,
          response_ready, held, last_event, cmds, conns, discs, loops,
          devQueue, devRouting, devOutLabels, devInLabels, opened, closes,
          seen, counts, created, scope>>

\* ------------------------------------------------------------------ world
\* The objects a synchronous cascade of property handlers can touch, as one
\* record w: the backend's fields, its presets, the emission locks, the
\* command tasks it has scheduled, what observers were shown (seen) and
\* whether an exception is propagating (exc).
World ==
    [connected |-> connected, prelude_parsed |-> prelude_parsed,
     client |-> client, device_id |-> device_id,
     num_outputs |-> num_outputs, num_inputs |-> num_inputs,
     crosspoints |-> crosspoints, output_labels |-> output_labels,
     input_labels |-> input_labels,
     crosspoint_control |-> crosspoint_control,
     output_label_control |-> output_label_control,
     input_label_control |-> input_label_control,
     presets |-> presets, read_enabled |-> read_enabled,
     current_section |-> current_section, ack_or_nak |-> ack_or_nak,
     response_ready |-> response_ready,
     held |-> held, last_event |-> last_event, cmds |-> cmds,
     seen |-> {}, exc |-> FALSE, created |-> created, scope |-> scope]

Commit(w) ==
    /\ connected' = w.connected
    /\ prelude_parsed' = w.prelude_parsed
    /\ client' = w.client
    /\ device_id' = w.device_id
    /\ num_outputs' = w.num_outputs
    /\ num_inputs' = w.num_inputs
    /\ crosspoints' = w.crosspoints
    /\ output_labels' = w.output_labels
    /\ input_labels' = w.input_labels
    /\ crosspoint_control' = w.crosspoint_control
    /\ output_label_control' = w.output_label_control
    /\ input_label_control' = w.input_label_control
    /\ presets' = w.presets
    /\ read_enabled' = w.read_enabled
    /\ current_section' = w.current_section
    /\ ack_or_nak' = w.ack_or_nak
    /\ response_ready' = w.response_ready
    /\ held' = w.held
    /\ last_event' = w.last_event
    /\ seen' = w.seen
    /\ created' = w.created
    /\ scope' = w.scope

Raise(w) == [w EXCEPT !.exc = TRUE]

\* [0] * n and [''] * n (a negative n gives the empty list)
Zeros(n) == [k \in 1..n |-> 0]
Empties(n) == [k \in 1..n |-> ""]


\* --------------------------------------------------- reactive property core
\* An observer of the backend is shown a change of `prop`: it sees the
\* lengths the two output containers have at that moment.
Saw(w, prop) ==
    [w EXCEPT !.seen = @ \cup {[prop |-> prop,
                                ncp |-> Len(w.crosspoints),
                                nol |-> Len(w.output_labels)]}]

\* A set_* coroutine as scheduled (a task that has not run yet).
NewCmd(prop, args) ==
    [prop |-> prop, args |-> args, pc |-> "new",
     tx |-> "none", answer |-> None, res |-> None, conn |-> 0]

\* on_prop_control without its `keys is None` return: a bulk replacement
\* submits the whole container.
on_prop_control_bulk(w, cprop, keys) ==
    IF ~w.connected THEN w
    ELSE IF ~w.prelude_parsed THEN w
    ELSE [w EXCEPT !.cmds = Append(@,
            NewCmd(StateOf(cprop),
                   IF keys = <<>>
                   THEN [k \in 1..Len(w[cprop]) |-> <<k - 1, w[cprop][k]>>]
                   ELSE [k \in 1..Len(keys) |-> <<keys[k], w[cprop][keys[k] + 1]>>]))]

\* BackendBase.on_prop_control: the listener of the three control containers.
\* keys = <<>> stands for "no keys" (a bulk replacement).
on_prop_control(w, cprop, keys) ==
    IF ~w.connected THEN w
    ELSE IF ~w.prelude_parsed THEN w
    ELSE IF keys = <<>> THEN w
    ELSE [w EXCEPT !.cmds = Append(@,
            NewCmd(StateOf(cprop),
                   [k \in 1..Len(keys) |-> <<keys[k], w[cprop][keys[k] + 1]>>]))]

\* A change of a control container is dispatched (no code holds its lock).
EmitControl(w, cprop, keys) == on_prop_control(Saw(w, cprop), cprop, keys)

\* self.<cprop> = value: a bulk replacement of a control container.
SetControlBulk(w, cprop, value) ==
    IF w[cprop] = value THEN w
    ELSE EmitControl([w EXCEPT ![cprop] = value], cprop, <<>>)

\* self.<cprop>[i] = v from outside code: a granular write.
SetControlItem(w, cprop, i, v) ==
    IF i < 0 \/ i >= Len(w[cprop]) THEN Raise(w)
    ELSE EmitControl([w EXCEPT ![cprop][i + 1] = v], cprop, <<i>>)

\* on_prop_feedback writing the control container item by item.
on_prop_feedback_items(w, prop) ==
    IF Len(w[prop]) = 0 \/ Len(w[ControlOf(prop)]) # Len(w[prop])
    THEN SetControlBulk(w, ControlOf(prop), w[prop])
    ELSE SetControlItem(SetControlBulk(w, ControlOf(prop), w[prop]),
                        ControlOf(prop), 0, w[prop][1])

\* on_prop_feedback that leaves the control container as it is
on_prop_feedback_stale(w, prop) == w

\* BackendBase.on_prop_feedback: mirror a state container into its control.
on_prop_feedback(w, prop) == SetControlBulk(w, ControlOf(prop), w[prop])

\* The for loop of Preset.check_active over the stored items, in dict order:
\* "raise" is the IndexError of self.backend.crosspoints[out_idx].
RECURSIVE ScanActive(_, _, _)
ScanActive(items, cps, j) ==
    IF j > Len(items) THEN "true"
    ELSE IF items[j][1] >= Len(cps) THEN "raise"
    ELSE IF cps[items[j][1] + 1] # items[j][2] THEN "false"
    ELSE ScanActive(items, cps, j + 1)

\* Preset.check_active of preset k (1-based position in presets).
check_active(w, k) ==
    IF Len(w.presets[k].crosspoints) = 0
    THEN [w EXCEPT !.presets[k].active = FALSE]
    ELSE LET r == ScanActive(w.presets[k].crosspoints, w.crosspoints, 1)
         IN CASE r = "raise" -> Raise(w)
              [] r = "false" -> [w EXCEPT !.presets[k].active = FALSE]
              [] r = "true" -> [w EXCEPT !.presets[k].active = TRUE]

\* Preset.on_backend_crosspoints
on_backend_crosspoints(w, k) ==
    IF ~w.prelude_parsed THEN w ELSE check_active(w, k)

\* The presets' listeners of backend.crosspoints, in binding order.
RECURSIVE NotifyPresets(_, _)
NotifyPresets(w, k) ==
    IF w.exc \/ k > Len(w.presets) THEN w
    ELSE NotifyPresets(on_backend_crosspoints(w, k), k + 1)

\* Event.__call__ of a state container that is not held: the listeners bound
\* in BackendBase.__init__ (on_prop_feedback) and, for crosspoints, those
\* bound by each Preset.__init__.
DeliverState(w, prop, keys) ==
    LET w1 == on_prop_feedback(Saw(w, prop), prop)
    IN IF prop = "crosspoints" THEN NotifyPresets(w1, 1) ELSE w1

\* A change of a state container: held back while its emission lock is held.
EmitState(w, prop, keys) ==
    IF w.held[prop]
    THEN [w EXCEPT !.last_event[prop] = [set |-> TRUE, keys |-> keys]]
    ELSE DeliverState(w, prop, keys)

\* self.<prop> = value
SetStateBulk(w, prop, value) ==
    IF w[prop] = value THEN w
    ELSE EmitState([w EXCEPT ![prop] = value], prop, <<>>)

\* A parser write that notifies without storing the value.
SetStateItem_lost(w, prop, i, v) ==
    IF i < 0 \/ i >= Len(w[prop]) THEN Raise(w)
    ELSE EmitState(w, prop, <<i>>)

\* self.<prop>[i] = v (the parser's writes)
SetStateItem(w, prop, i, v) ==
    IF i < 0 \/ i >= Len(w[prop]) THEN Raise(w)
    ELSE EmitState([w EXCEPT ![prop][i + 1] = v], prop, <<i>>)

\* Entering `with self.emission_lock(prop)` without holding anything
acquire_none(w, prop) == w

\* with self.emission_lock(prop): entering and leaving
acquire(w, prop) ==
    IF w.held[prop] THEN w
    ELSE [w EXCEPT !.held[prop] = TRUE, !.last_event[prop] = NoEvent]

release(w, prop) ==
    IF ~w.held[prop] THEN w
    ELSE LET e == w.last_event[prop]
             w1 == [w EXCEPT !.held[prop] = FALSE, !.last_event[prop] = NoEvent]
         IN IF e.set THEN DeliverState(w1, prop, e.keys) ELSE w1

\* BackendBase.on_num_outputs
on_num_outputs(w, value) ==
    IF value = Len(w.output_labels) THEN w
    ELSE LET w1 == IF value # Len(w.crosspoints)
                   THEN SetStateBulk(w, "crosspoints", Zeros(value))
                   ELSE w
         IN IF w1.exc THEN w1
            ELSE SetStateBulk(w1, "output_labels", Empties(value))

\* BackendBase.on_num_inputs
on_num_inputs(w, value) ==
    IF value = Len(w.input_labels) THEN w
    ELSE LET w1 == IF value # Len(w.crosspoints)
                   THEN SetStateBulk(w, "crosspoints", Zeros(value))
                   ELSE w
         IN IF w1.exc THEN w1
            ELSE SetStateBulk(w1, "input_labels", Empties(value))

\* self.num_outputs = value / self.num_inputs = value
set_num_outputs(w, value) ==
    IF w.num_outputs = value THEN w
    ELSE on_num_outputs([w EXCEPT !.num_outputs = value], value)

set_num_inputs(w, value) ==
    IF w.num_inputs = value THEN w
    ELSE on_num_inputs([w EXCEPT !.num_inputs = value], value)

\* Preset.on_backend_ready for the presets still bound to prelude_parsed.
RECURSIVE NotifyReady(_, _, _)
NotifyReady(w, value, k) ==
    IF w.exc \/ k > Len(w.presets) THEN w
    ELSE IF ~w.presets[k].ready_bound \/ ~value THEN NotifyReady(w, value, k + 1)
    ELSE NotifyReady(check_active([w EXCEPT !.presets[k].ready_bound = FALSE], k),
                     value, k + 1)

\* self.prelude_parsed = value
set_prelude_parsed(w, value) ==
    IF w.prelude_parsed = value THEN w
    ELSE NotifyReady([w EXCEPT !.prelude_parsed = value], value, 1)

\* ------------------------------------------------------------------ presets
\* A preset's crosspoints dict as the sequence of its (out, in) items.
DictHas(d, key) == \E j \in 1..Len(d) : d[j][1] = key
DictSet(d, key, val) ==
    IF DictHas(d, key)
    THEN [j \in 1..Len(d) |-> IF d[j][1] = key THEN <<key, val>> ELSE d[j]]
    ELSE Append(d, <<key, val>>)
DictGet(d, key) == d[CHOOSE j \in 1..Len(d) : d[j][1] = key][2]
DictKeys(d) == {d[j][1] : j \in 1..Len(d)}

\* range(n) short of its last element
Range_short(n) == [k \in 1..(n - 1) |-> k - 1]

\* range(n) as a sequence
Range(n) == [k \in 1..n |-> k - 1]

\* '{}'.format(n) for the small numbers the program formats
NumText == <<"0", "1", "2", "3", "4">>
Str(n) == NumText[n + 1]

\* 'Preset {}'.format(index + 1)
PresetName(index) == "Preset " \o Str(index + 1)

\* Preset.__init__ as called by add_preset (no crosspoints given): the new
\* preset takes the index it is given and, without a name, a name made of
\* that index; check_active() of an empty preset leaves active False.
NewPreset(w, name, index) ==
    [name |-> IF name = None THEN PresetName(index) ELSE name,
     index |-> index,
     crosspoints |-> <<>>, active |-> FALSE,
     ready_bound |-> ~(w.connected /\ w.prelude_parsed)]

\* BackendBase.add_preset with an index one short of len(self.presets)
add_preset_short(w, name) ==
    [w EXCEPT !.presets = Append(@, NewPreset(w, name, Len(w.presets) - 1))]

\* BackendBase.add_preset(name)
add_preset(w, name) ==
    [w EXCEPT !.presets = Append(@, NewPreset(w, name, Len(w.presets)))]

\* The for loop of Preset.store over outputs_to_store
RECURSIVE StoreLoop(_, _, _, _)
StoreLoop(w, k, outs, j) ==
    IF j > Len(outs) THEN w
    ELSE IF outs[j] >= Len(w.crosspoints) THEN Raise(w)
    ELSE StoreLoop([w EXCEPT !.presets[k].crosspoints =
                        DictSet(@, outs[j], w.crosspoints[outs[j] + 1])],
                   k, outs, j + 1)

\* outputs_to_store=None
AllOutputs == <<-1>>

\* Preset.store that keeps the current entries whatever clear_current says
store_keep(w, k, outs, clear_current) ==
    LET os == IF outs = AllOutputs THEN Range(w.num_outputs) ELSE outs
        w2 == StoreLoop(w, k, os, 1)
    IN IF w2.exc THEN w2 ELSE [w2 EXCEPT !.presets[k].active = TRUE]

\* Preset.store: outs is the sequence outputs_to_store; AllOutputs stands
\* for outputs_to_store=None.
store(w, k, outs, clear_current) ==
    LET os == IF outs = AllOutputs THEN Range(w.num_outputs) ELSE outs
        w1 == IF clear_current THEN [w EXCEPT !.presets[k].crosspoints = <<>>]
              ELSE w
        w2 == StoreLoop(w1, k, os, 1)
    IN IF w2.exc THEN w2 ELSE [w2 EXCEPT !.presets[k].active = TRUE]

\* self.presets[index] of a list of n presets: the 1-based position the
\* subscript selects (a negative index counts from the end), 0 when it
\* raises IndexError.
Subscript(n, index) ==
    IF index >= 0 THEN (IF index < n THEN index + 1 ELSE 0)
    ELSE (IF n + index >= 0 THEN n + index + 1 ELSE 0)

\* The while loop of BackendBase.store_preset (index is not None): presets
\* are added until self.presets[index] selects one.
RECURSIVE EnsurePreset(_, _)
EnsurePreset(w, index) ==
    IF Subscript(Len(w.presets), index) # 0 THEN w
    ELSE EnsurePreset(add_preset(w, None), index)

\* BackendBase.store_preset(outputs_to_store, name, index, clear_current)
\* with an integer index.
store_preset(w, outs, name, index, clear_current) ==
    LET w1 == EnsurePreset(w, index)
        k == Subscript(Len(w1.presets), index)
        w2 == IF name # None THEN [w1 EXCEPT !.presets[k].name = name] ELSE w1
    IN store(w2, k, outs, clear_current)

\* BackendBase.store_preset(outputs_to_store, name, index=None,
\* clear_current): the while loop is skipped, so the local variable preset
\* is read before it was ever assigned (UnboundLocalError).
store_preset_next(w, outs, name, clear_current) == Raise(w)


\* ------------------------------------------------------------ wire lines
\* A line of the wire text, after bfr.splitlines(): its kind and its tokens.
\*   "ack" / "nak"   a line that starts with ACK / NAK
\*   "blank"         the empty line
\*   "end"           the line "END PRELUDE:"
\*   "hdr"           a line that ends a block's header, a = the whole line
\*   "kv"            "<a>: <b>", e.g. "Video outputs: 2"
\*   "pair"          "<a> <b>" with two integers, e.g. "0 3"
\*   "label"         "<a> <b>" with an integer and a text, e.g. "0 cam"
Line(k, a, b) == [k |-> k, a |-> a, b |-> b]
AckLine == Line("ack", ACK, 0)
NakLine == Line("nak", NAK, 0)
Blank == Line("blank", "", 0)
EndPrelude == Line("end", "END PRELUDE:", 0)
Hdr(name) == Line("hdr", name, 0)

\* TelnetBackend.SECTION_NAMES
SECTION_NAMES ==
    {"PROTOCOL PREAMBLE:", "VIDEOHUB DEVICE:", "INPUT LABELS:", "OUTPUT LABELS:",
     "VIDEO OUTPUT LOCKS:", "VIDEO OUTPUT ROUTING:", "CONFIGURATION:"}

\* line.rstrip(':') of a section header
RStripColon(s) ==
    CASE s = "PROTOCOL PREAMBLE:" -> "PROTOCOL PREAMBLE"
      [] s = "VIDEOHUB DEVICE:" -> "VIDEOHUB DEVICE"
      [] s = "INPUT LABELS:" -> "INPUT LABELS"
      [] s = "OUTPUT LABELS:" -> "OUTPUT LABELS"
      [] s = "VIDEO OUTPUT LOCKS:" -> "VIDEO OUTPUT LOCKS"
      [] s = "VIDEO OUTPUT ROUTING:" -> "VIDEO OUTPUT ROUTING"
      [] s = "CONFIGURATION:" -> "CONFIGURATION"
      [] OTHER -> s

\* str.upper() of the device ids the model's device reports
Upper(s) == IF s = "a0b2" THEN "A0B2" ELSE s

\* ' '.join(line.split(' ')[1:]) of an item line
LabelText(line) == IF line.k = "pair" THEN Str(line.b) ELSE line.b

\* The header line a set_* command starts with (telnet.py:174,189,204)
HeaderOf(prop) ==
    CASE prop = "crosspoints" -> "VIDEO OUTPUT ROUTING:"
      [] prop = "output_labels" -> "OUTPUT LABELS:"
      [] prop = "input_labels" -> "INPUT LABELS:"

\* '{} {}'.format(idx, value): a number formats to digits, a text to itself
FormatItem(prop, arg) ==
    IF prop = "crosspoints" THEN Line("pair", arg[1], arg[2])
    ELSE Line("label", arg[1], arg[2])

\* tx_bfr of set_crosspoints / set_output_labels / set_input_labels, as the
\* lines the receiver splits it into: header, one line per item, and the
\* empty line left by the closing "\n\n".
FormatCmd(prop, args) ==
    <<Hdr(HeaderOf(prop))>>
    \o [k \in 1..Len(args) |-> FormatItem(prop, args[k])]
    \o <<Blank>>

\* --------------------------------------------------------------- parser
\* One pass of the for loop of TelnetBackend.parse_rx_bfr over a line:
\* st = [w, sp, brk] carries the backend, section_parsed and "break".
ParseLine(st, line) ==
    LET w == st.w
    IN IF line.k = "end"
       THEN [st EXCEPT !.w = set_prelude_parsed(
                                [w EXCEPT !.current_section = None], TRUE),
                       !.brk = TRUE]
       ELSE IF line.k = "blank" THEN st
       ELSE IF line.k \in {"ack", "nak"}
       THEN [st EXCEPT !.w.ack_or_nak = line.a]
       ELSE IF line.k = "hdr" /\ line.a \in SECTION_NAMES
       THEN [st EXCEPT !.w.current_section = RStripColon(line.a)]
       ELSE IF w.current_section = None THEN st
       ELSE IF w.current_section = "PROTOCOL PREAMBLE" THEN st
       ELSE IF w.current_section = "VIDEOHUB DEVICE"
       THEN IF line.k # "kv" THEN st
            ELSE IF line.a = "Unique ID"
            THEN [st EXCEPT !.w.device_id = Upper(line.b)]
            ELSE IF line.a = "Video outputs"
            THEN [st EXCEPT !.w = set_num_outputs(w, line.b)]
            ELSE IF line.a = "Video inputs"
            THEN [st EXCEPT !.w = set_num_inputs(w, line.b)]
            ELSE st
       ELSE IF w.current_section = "OUTPUT LABELS"
       THEN IF line.k \notin {"pair", "label"} THEN [st EXCEPT !.w = Raise(w)]
            ELSE LET w1 == SetStateItem(w, "output_labels", line.a, LabelText(line))
                 IN [st EXCEPT !.w = w1, !.sp = IF w1.exc THEN @ ELSE TRUE]
       ELSE IF w.current_section = "INPUT LABELS"
       THEN IF line.k \notin {"pair", "label"} THEN [st EXCEPT !.w = Raise(w)]
            ELSE LET w1 == SetStateItem(w, "input_labels", line.a, LabelText(line))
                 IN [st EXCEPT !.w = w1, !.sp = IF w1.exc THEN @ ELSE TRUE]
       ELSE IF w.current_section = "VIDEO OUTPUT ROUTING"
       THEN IF line.k # "pair" THEN [st EXCEPT !.w = Raise(w)]
            ELSE [st EXCEPT !.w = SetStateItem(w, "crosspoints", line.a, line.b)]
       ELSE [st EXCEPT !.sp = TRUE]

RECURSIVE ParseLines(_, _, _)
ParseLines(st, lines, j) ==
    IF j > Len(lines) \/ st.brk \/ st.w.exc THEN st
    ELSE ParseLines(ParseLine(st, lines[j]), lines, j + 1)

\* TelnetBackend.parse_rx_bfr on the lines of one read. When a line raises
\* (exc), nothing after it runs: response_ready is not set.
parse_rx_bfr(w, lines) ==
    LET st == ParseLines([w |-> w, sp |-> FALSE, brk |-> FALSE], lines, 1)
        w1 == st.w
    IN IF w1.exc THEN w1
       ELSE LET w2 == [w1 EXCEPT !.response_ready = TRUE]
            IN IF ~w2.prelude_parsed THEN w2
               ELSE IF w2.current_section # None /\ st.sp
               THEN [w2 EXCEPT !.current_section = None]
               ELSE w2

\* --------------------------------------------------------------- device
\* The block a device reports a container with: header, items, empty line.
RoutingBlock(routing) ==
    <<Hdr("VIDEO OUTPUT ROUTING:")>>
    \o [k \in 1..Len(routing) |-> Line("pair", k - 1, routing[k])]
    \o <<Blank>>

LabelBlock(header, labels) ==
    <<Hdr(header)>>
    \o [k \in 1..Len(labels) |-> Line("label", k - 1, labels[k])]
    \o <<Blank>>

\* What a Videohub sends when a transport is opened (the test suite's
\* vidhub-preamble.txt): identity and topology, inputs before outputs, the
\* labels, the routing, and the terminator.
Prelude(routing, outl, inl) ==
    <<Hdr("PROTOCOL PREAMBLE:"), Line("kv", "Version", "2.7"), Blank,
      Hdr("VIDEOHUB DEVICE:"), Line("kv", "Unique ID", "a0b2"),
      Line("kv", "Video inputs", DevInputs),
      Line("kv", "Video outputs", DevOutputs), Blank>>
    \o LabelBlock("INPUT LABELS:", inl)
    \o LabelBlock("OUTPUT LABELS:", outl)
    \o RoutingBlock(routing)
    \o <<EndPrelude, Blank>>

\* The device's answer to a command block it accepts: ACK, an empty line and
\* an echo of the block (conftest.py:138-144).
AckEcho(block) == <<AckLine, Blank>> \o block
NakAnswer == <<NakLine, Blank>>

\* The device's container after it applies the items of a command.
RECURSIVE ApplyArgs(_, _, _)
ApplyArgs(cont, args, j) ==
    IF j > Len(args) THEN cont
    ELSE ApplyArgs([cont EXCEPT ![args[j][1] + 1] = args[j][2]], args, j + 1)


\* ------------------------------------------------------- rendezvous waits
\* TelnetBackendBase.wait_for_response(prelude=False), from the head of its
\* while loop up to its next suspension: ret says whether it returned, resp
\* what it returned.
WaitCleared(w) ==
    IF w.ack_or_nak # None
    THEN [w |-> [w EXCEPT !.ack_or_nak = None], ret |-> TRUE, resp |-> w.ack_or_nak]
    ELSE IF ~w.read_enabled THEN [w |-> w, ret |-> TRUE, resp |-> None]
    ELSE [w |-> w, ret |-> FALSE, resp |-> None]

\* ... resumed by response_ready.set(): response_ready.clear() and on.
WaitWoken(w) == WaitCleared([w EXCEPT !.response_ready = FALSE])

WaitHead(w) ==
    IF ~w.read_enabled THEN [w |-> w, ret |-> TRUE, resp |-> None]
    ELSE IF w.response_ready THEN WaitWoken(w)
    ELSE [w |-> w, ret |-> FALSE, resp |-> None]

\* wait_for_response(prelude=True): next is "ret", "sleep" or "blocked".
PreludeWoken(w) ==
    LET w1 == [w EXCEPT !.response_ready = FALSE]
    IN IF w1.prelude_parsed THEN [w |-> w1, next |-> "ret"]
       ELSE [w |-> w1, next |-> "sleep"]

PreludeHead(w) ==
    IF ~w.read_enabled THEN [w |-> w, next |-> "ret"]
    ELSE IF w.response_ready THEN PreludeWoken(w)
    ELSE [w |-> w, next |-> "blocked"]

\* ... after its asyncio.sleep(.1)
PreludeSlept(w) ==
    IF w.ack_or_nak # None
    THEN [w |-> [w EXCEPT !.ack_or_nak = None], next |-> "ret"]
    ELSE PreludeHead(w)

\* response_ready.set() resumes every task suspended in response_ready.wait()
Wake(tasks) ==
    [t \in DOMAIN tasks |->
        IF tasks[t].pc = "blocked" THEN [tasks[t] EXCEPT !.pc = "woken"]
        ELSE tasks[t]]

\* ------------------------------------------------------------- SmartScope
\* SmartScopeTelnetBackend.SECTION_NAMES as the class defines it
ScopeSections == <<"PROTOCOL PREAMBLE:", "SMARTVIEW DEVICE:", "NETWORK:">>

\* string.ascii_uppercase, as far as the model's monitors go
Letters == <<"A", "B", "C", "D">>

\* 'MONITOR {}:'.format(c) for the j-th letter, and the same without colon
MonitorHeader(j) == "MONITOR " \o Letters[j] \o ":"
MonitorName(j) == "MONITOR " \o Letters[j]

\* line.rstrip(':') of a SmartScope section header
ScopeRStrip(h) ==
    IF \E j \in 1..Len(Letters) : h = MonitorHeader(j)
    THEN MonitorName(CHOOSE j \in 1..Len(Letters) : h = MonitorHeader(j))
    ELSE CASE h = "PROTOCOL PREAMBLE:" -> "PROTOCOL PREAMBLE"
           [] h = "SMARTVIEW DEVICE:" -> "SMARTVIEW DEVICE"
           [] h = "NETWORK:" -> "NETWORK"
           [] OTHER -> h

\* current_section.startswith('MONITOR')
IsMonitorSection(sec) == \E j \in 1..Len(Letters) : sec = MonitorName(j)

\* The for loop over string.ascii_uppercase[:num_monitors] that appends the
\* monitor headers SECTION_NAMES does not hold yet.
RECURSIVE AppendHeaders(_, _, _)
AppendHeaders(names, n, j) ==
    IF j > n THEN names
    ELSE AppendHeaders(IF \E x \in 1..Len(names) : names[x] = MonitorHeader(j)
                       THEN names ELSE Append(names, MonitorHeader(j)),
                       n, j + 1)

\* SmartScopeBackendBase.add_monitor(name=name): a new monitor, appended.
add_monitor(sc, name) ==
    [sc EXCEPT !.monitors = Append(@, [name |-> name, brightness |-> 0])]

\* parse_monitor_line without the search among the existing monitors
parse_monitor_line_add(sc, monitor_name, line) ==
    LET s1 == add_monitor(sc, monitor_name)
    IN IF line.k = "kv" /\ line.a = "Brightness"
       THEN [s1 EXCEPT !.monitors[Len(s1.monitors)].brightness = line.b,
                       !.observed = @ \cup {monitor_name}]
       ELSE [s1 EXCEPT !.observed = @ \cup {monitor_name}]

\* SmartScopeTelnetBackend.parse_monitor_line: the monitor of that name is
\* looked up, created if there is none, and a recognized field is set.
\* observed records the sections that have had a line.
parse_monitor_line(sc, monitor_name, line) ==
    LET found == {x \in 1..Len(sc.monitors) : sc.monitors[x].name = monitor_name}
        s1 == IF found = {} THEN add_monitor(sc, monitor_name) ELSE sc
        m == IF found = {} THEN Len(s1.monitors)
             ELSE CHOOSE x \in found : \A y \in found : x <= y
    IN IF line.k = "kv" /\ line.a = "Brightness"
       THEN [s1 EXCEPT !.monitors[m].brightness = line.b,
                       !.observed = @ \cup {monitor_name}]
       ELSE [s1 EXCEPT !.observed = @ \cup {monitor_name}]

\* split_value(line).split('-')[1].upper() of the hostnames the device has
ScopeId(v) == IF v = "SmartScope-a0b2" THEN "A0B2" ELSE v

\* One pass of the for loop of SmartScopeTelnetBackend.parse_rx_bfr:
\* st = [s, sp, brk, exc] carries the backend, section_parsed, "break" and
\* a propagating exception (None has no startswith).
ScopeParseLine(st, line) ==
    LET sc == st.s
    IN IF line.k = "blank"
       THEN IF sc.current_section = None THEN [st EXCEPT !.exc = TRUE]
            ELSE IF /\ IsMonitorSection(sc.current_section)
                    /\ Len(sc.monitors) = sc.num_monitors
            THEN [st EXCEPT !.s.current_section = None,
                            !.s.prelude_parsed = TRUE, !.brk = TRUE]
            ELSE st
       ELSE IF line.k \in {"ack", "nak"} THEN [st EXCEPT !.s.ack_or_nak = line.a]
       ELSE IF /\ line.k = "hdr"
               /\ \E x \in 1..Len(sc.SECTION_NAMES) : sc.SECTION_NAMES[x] = line.a
       THEN [st EXCEPT !.s.current_section = ScopeRStrip(line.a)]
       ELSE IF sc.current_section = None THEN st
       ELSE IF sc.current_section = "PROTOCOL PREAMBLE" THEN st
       ELSE IF sc.current_section = "SMARTVIEW DEVICE"
       THEN IF line.k # "kv" THEN st
            ELSE IF line.a = "Hostname"
            THEN [st EXCEPT !.s.device_id = ScopeId(line.b)]
            ELSE IF line.a = "Monitors"
            THEN [st EXCEPT !.s.num_monitors = line.b,
                            !.s.SECTION_NAMES = AppendHeaders(@, line.b, 1)]
            ELSE st
       ELSE IF sc.current_section = "NETWORK" THEN st
       ELSE IF IsMonitorSection(sc.current_section)
       THEN [st EXCEPT !.s = parse_monitor_line(sc, sc.current_section, line)]
       ELSE [st EXCEPT !.sp = TRUE]

RECURSIVE ScopeParseLines(_, _, _)
ScopeParseLines(st, lines, j) ==
    IF j > Len(lines) \/ st.brk \/ st.exc THEN st
    ELSE ScopeParseLines(ScopeParseLine(st, lines[j]), lines, j + 1)

\* SmartScopeTelnetBackend.parse_rx_bfr on the lines of one read; an
\* exception ends the read loop task.
scope_parse_rx_bfr(sc, lines) ==
    LET st == ScopeParseLines([s |-> sc, sp |-> FALSE, brk |-> FALSE,
                               exc |-> FALSE], lines, 1)
    IN IF st.exc THEN [st.s EXCEPT !.crashed = TRUE]
       ELSE LET s2 == [st.s EXCEPT !.response_ready = TRUE]
            IN IF ~s2.prelude_parsed THEN s2
               ELSE IF s2.current_section # None /\ st.sp
               THEN [s2 EXCEPT !.current_section = None]
               ELSE s2

\* A monitor's section as the device sends it: header, one field, and the
\* empty line that ends it.
MonitorBlock(j, field, v) == <<Hdr(MonitorHeader(j)), Line("kv", field, v), Blank>>

RECURSIVE MonitorBlocks(_, _)
MonitorBlocks(n, j) ==
    IF j > n THEN <<>>
    ELSE MonitorBlock(j, "Brightness", 255) \o MonitorBlocks(n, j + 1)

\* What a SmartScope with n monitors sends when a transport is opened.
ScopePrelude(n) ==
    <<Hdr("PROTOCOL PREAMBLE:"), Line("kv", "Version", "1.3"), Blank,
      Hdr("SMARTVIEW DEVICE:"), Line("kv", "Hostname", "SmartScope-a0b2"),
      Line("kv", "Monitors", n), Blank,
      Hdr("NETWORK:"), Line("kv", "Dynamic IP", "true"), Blank>>
    \o MonitorBlocks(n, 1)

\* A second SmartScopeTelnetBackend of the same process, after
\* construction: its instance attributes. SECTION_NAMES is not among them:
\* it is an attribute of the class, one list for every instance, which the
\* model keeps in scope.SECTION_NAMES.
PeerInit ==
    [current_section |-> None, prelude_parsed |-> FALSE, device_id |-> None,
     num_monitors |-> 0, monitors |-> <<>>, ack_or_nak |-> None,
     response_ready |-> FALSE, crashed |-> FALSE, rx |-> <<>>,
     declared |-> 0, opens |-> 0, updates |-> 0, observed |-> {}]

\* The second backend as its methods see it: its own attributes, and
\* self.SECTION_NAMES resolving to the list of the class.
PeerBackend(sc) == [SECTION_NAMES |-> sc.SECTION_NAMES] @@ sc.peer

\* The instance attributes of a backend r, without the list of the class.
PeerFields(r) == [f \in DOMAIN PeerInit |-> r[f]]

\* ------------------------------------------------------------------- Init
IsSet(cmd) == cmd.prop \in StateProps
Ready == connected /\ prelude_parsed

\* A command coroutine has been called and has not returned.
Busy == \E c \in DOMAIN cmds : cmds[c].pc \notin {"done", "crashed"}

Init ==
    /\ connected = FALSE
    /\ prelude_parsed = FALSE
    /\ client = 0
    /\ device_id = None
    /\ num_outputs = 0
    /\ num_inputs = 0
    /\ crosspoints = <<>>
    /\ output_labels = <<>>
    /\ input_labels = <<>>
    /\ crosspoint_control = <<>>
    /\ output_label_control = <<>>
    /\ input_label_control = <<>>
    /\ presets = <<>>
    /\ read_enabled = FALSE
    /\ read_coro = 0
    /\ current_section = None
    /\ ack_or_nak = None
    /\ response_ready = FALSE
    /\ held = [p \in StateProps |-> FALSE]
    /\ last_event = [p \in StateProps |-> NoEvent]
    /\ cmds = <<>>
    /\ conns = <<[pc |-> "new", c |-> 0]>>
    /\ discs = <<>>
    /\ loops = <<>>
    /\ devQueue = <<>>
    /\ devRouting = [k \in 1..DevOutputs |-> (k - 1) % DevInputs]
    /\ devOutLabels = [k \in 1..DevOutputs |-> "x"]
    /\ devInLabels = [k \in 1..DevInputs |-> "x"]
    /\ opened = 0
    /\ closes = <<>>
    /\ seen = {}
    /\ counts = [overlap |-> FALSE, ops |-> 0, writes |-> 0, calls |-> 0, panel |-> 0, errors |-> 0,
                 stores |-> 0, resizes |-> 0, status |-> 0, garbles |-> 0]
    /\ created = "pending"
    /\ scope = [SECTION_NAMES |-> ScopeSections, current_section |-> None,
                prelude_parsed |-> FALSE, device_id |-> None,
                num_monitors |-> 0, monitors |-> <<>>, ack_or_nak |-> None,
                response_ready |-> FALSE, crashed |-> FALSE, rx |-> <<>>,
                declared |-> 0, opens |-> 0, updates |-> 0, observed |-> {},
                peer |-> PeerInit]

devVars == <<devQueue, devRouting, devOutLabels, devInLabels>>
transportVars == <<opened, closes>>

\* create_async after `await obj.connect_fut`, looking at connected only
create_async_connected(w) ==
    IF ~w.connected THEN None ELSE "obj"

\* BackendBase.create_async after `await obj.connect_fut`: what it returns
create_async(w) ==
    IF ~w.connected \/ ~w.prelude_parsed THEN None
    ELSE IF w.device_id = None THEN None
    ELSE "obj"

\* Connect task t has returned: if it is connect_fut, the task started
\* by the constructor, the create_async that awaits it resumes.
Finished(w, t) ==
    IF t = 1 THEN [w EXCEPT !.created = create_async(w)] ELSE w

\* ---------------------------------------------------------------- connect
\* BackendBase.connect up to the await of the socket open in do_connect.
ConnStart(t) ==
    /\ conns[t].pc = "new"
    /\ IF connected
       THEN /\ conns' = [conns EXCEPT ![t].pc = "done"]
            /\ Commit(Finished(World, t))
            /\ opened' = opened
       ELSE /\ opened < MaxConns
            /\ conns' = [conns EXCEPT ![t].pc = "opening"]
            /\ Commit([World EXCEPT !.connected = TRUE])
            /\ opened' = opened + 1
    /\ UNCHANGED <<read_coro, cmds, discs, loops, devVars, closes, counts>>

\* do_connect after the socket opened: start the read loop and enter
\* wait_for_response(prelude=True). The device sends its prelude.
ConnOpened(t) ==
    /\ conns[t].pc = "opening"
    /\ LET w0 == set_prelude_parsed([World EXCEPT !.client = Len(closes) + 1], FALSE)
           r == PreludeHead([w0 EXCEPT !.read_enabled = TRUE])
       IN /\ Commit(r.w)
          /\ conns' = [conns EXCEPT ![t].pc = r.next, ![t].c = Len(closes) + 1]
    /\ opened' = opened
    /\ closes' = Append(closes, 0)
    /\ loops' = Append(loops, [pc |-> "run"])
    /\ read_coro' = Len(loops) + 1
    /\ devQueue' = Append(devQueue, Prelude(devRouting, devOutLabels, devInLabels))
    /\ UNCHANGED <<cmds, discs, devRouting, devOutLabels, devInLabels, counts>>

\* The OSError branch of do_connect without connect()'s `if r is False`
open_failed_kept(w) == [w EXCEPT !.client = 0]

\* The socket open raised OSError: do_connect sets client to None and
\* returns False, and connect() takes back connected = True.
open_failed(w) == [w EXCEPT !.client = 0, !.connected = FALSE]

\* do_connect when the socket open raises OSError; connect() undoes connected.
ConnOpenFail(t) ==
    /\ conns[t].pc = "opening"
    /\ counts.errors < MaxErrors
    /\ Commit(Finished(open_failed(World), t))
    /\ conns' = [conns EXCEPT ![t].pc = "done"]
    /\ counts' = [counts EXCEPT !.errors = @ + 1]
    /\ UNCHANGED <<read_coro, cmds, discs, loops, devVars, transportVars>>

\* wait_for_response returned: do_connect returns c, and connect() keeps it
\* unless the client was cleared meanwhile (base.py:114-115).
ConnReturn(w, t) == [w EXCEPT !.client = IF w.client # 0 THEN conns[t].c ELSE 0]

ConnAdvance(t, r) ==
    IF r.next = "ret"
    THEN /\ Commit(Finished(ConnReturn(r.w, t), t))
         /\ conns' = [conns EXCEPT ![t].pc = "done", ![t].c = 0]
    ELSE /\ Commit(r.w)
         /\ conns' = [conns EXCEPT ![t].pc = r.next]

\* The connecting task resumes from response_ready.wait().
ConnWake(t) ==
    /\ conns[t].pc = "woken"
    /\ ConnAdvance(t, PreludeWoken(World))
    /\ UNCHANGED <<read_coro, cmds, discs, loops, devVars, transportVars, counts>>

\* The connecting task resumes from asyncio.sleep(.1).
ConnSlept(t) ==
    /\ conns[t].pc = "sleep"
    /\ ConnAdvance(t, PreludeSlept(World))
    /\ UNCHANGED <<read_coro, cmds, discs, loops, devVars, transportVars, counts>>

\* ------------------------------------------------------------- disconnect
\* The transport's close_async(), counted per transport.
Close(w) == IF w.client # 0 THEN [closes EXCEPT ![w.client] = @ + 1] ELSE closes

\* do_disconnect after the read loop ended, and the end of disconnect().
Disconnected(w) == [w EXCEPT !.client = 0, !.connected = FALSE]

\* disconnect() is called from outside.
Disconnect ==
    /\ Len(discs) < MaxDiscs
    /\ discs' = Append(discs, [pc |-> "new", loop |-> 0])
    /\ Commit(World)
    /\ UNCHANGED <<read_coro, cmds, conns, loops, devVars, transportVars, counts>>

\* BackendBase.disconnect / do_disconnect up to the await of the read loop.
DiscStart(t) ==
    /\ discs[t].pc = "new"
    /\ IF ~connected
       THEN /\ discs' = [discs EXCEPT ![t].pc = "done"]
            /\ Commit(World)
            /\ UNCHANGED <<read_coro, closes>>
       ELSE IF read_coro # 0
       THEN /\ discs' = [discs EXCEPT ![t].pc = "waitloop", ![t].loop = read_coro]
            /\ Commit([World EXCEPT !.read_enabled = FALSE])
            /\ UNCHANGED <<read_coro, closes>>
       ELSE /\ discs' = [discs EXCEPT ![t].pc = "done"]
            /\ closes' = Close(World)
            /\ Commit(Disconnected([World EXCEPT !.read_enabled = FALSE]))
            /\ UNCHANGED read_coro
    /\ UNCHANGED <<cmds, conns, loops, devVars, opened, counts>>

\* do_disconnect resumes once the awaited read loop task has ended.
DiscFinish(t) ==
    /\ discs[t].pc = "waitloop"
    /\ loops[discs[t].loop].pc \in {"done", "crashed"}
    /\ discs' = [discs EXCEPT ![t].pc = "done"]
    /\ read_coro' = 0
    /\ closes' = Close(World)
    /\ Commit(Disconnected(World))
    /\ UNCHANGED <<cmds, conns, loops, devVars, opened, counts>>

\* -------------------------------------------------------------- read loop
\* while self.read_enabled: the loop ends when the flag is cleared.
LoopExit(l) ==
    /\ loops[l].pc = "run"
    /\ ~read_enabled
    /\ loops' = [loops EXCEPT ![l].pc = "done"]
    /\ Commit(World)
    /\ UNCHANGED <<read_coro, cmds, conns, discs, devVars, transportVars, counts>>

\* A transport that has been closed raises on every read and write.
Usable(c) == c # 0 /\ closes[c] = 0

\* The except branch of read_loop without `self.client = None`
read_failed_kept(w) == [w EXCEPT !.read_enabled = FALSE, !.connected = FALSE]

\* The except branch of read_loop (telnet.py:28-33)
read_failed(w) ==
    [w EXCEPT !.client = 0, !.read_enabled = FALSE, !.connected = FALSE]

\* read_very_eager raises (a transport error, a closed transport, or
\* self.client is None): the except branch of read_loop.
LoopReadFail(l) ==
    /\ loops[l].pc = "run"
    /\ read_enabled
    /\ \/ ~Usable(client) /\ counts' = counts
       \/ Usable(client) /\ counts.errors < MaxErrors
          /\ counts' = [counts EXCEPT !.errors = @ + 1]
    /\ loops' = [loops EXCEPT ![l].pc = "done"]
    /\ Commit(read_failed(World))
    /\ UNCHANGED <<read_coro, cmds, conns, discs, devVars, transportVars>>

\* read_very_eager returns the lines the device has sent on the transport
\* self.client, and parse_rx_bfr parses them. A line that raises ends the
\* read loop task.
LoopRead(l) ==
    /\ loops[l].pc = "run"
    /\ read_enabled
    /\ Usable(client)
    /\ Len(devQueue[client]) > 0
    /\ LET w == parse_rx_bfr(World, devQueue[client])
       IN /\ Commit(w)
          /\ IF w.exc
             THEN /\ loops' = [loops EXCEPT ![l].pc = "crashed"]
                  /\ cmds' = w.cmds
                  /\ conns' = conns
             ELSE /\ loops' = loops
                  /\ cmds' = Wake(w.cmds)
                  /\ conns' = Wake(conns)
    /\ devQueue' = [devQueue EXCEPT ![client] = <<>>]
    /\ UNCHANGED <<read_coro, discs, devRouting, devOutLabels, devInLabels,
                   transportVars, counts>>


\* read_very_eager returns only the first k lines of what the device has
\* sent (the rest has not arrived yet): parse_rx_bfr parses them, and the
\* remaining lines are returned by a later read.
LoopReadPart(l, k) ==
    /\ loops[l].pc = "run"
    /\ read_enabled
    /\ Usable(client)
    /\ k \in 1..(Len(devQueue[client]) - 1)
    /\ LET w == parse_rx_bfr(World, SubSeq(devQueue[client], 1, k))
       IN /\ Commit(w)
          /\ IF w.exc
             THEN /\ loops' = [loops EXCEPT ![l].pc = "crashed"]
                  /\ cmds' = w.cmds
                  /\ conns' = conns
             ELSE /\ loops' = loops
                  /\ cmds' = Wake(w.cmds)
                  /\ conns' = Wake(conns)
    /\ devQueue' = [devQueue EXCEPT ![client] = SubSeq(@, k + 1, Len(@))]
    /\ UNCHANGED <<read_coro, discs, devRouting, devOutLabels, devInLabels,
                   transportVars, counts>>


\* --------------------------------------------------------------- commands
InputVals == 0..(DevInputs - 1)
LabelVals == {"y"}
ValsOf(prop) == IF prop = "crosspoints" THEN InputVals ELSE LabelVals

\* The sections get_status() queries by default (telnet.py:164-168).
StatusSections == <<"VIDEO OUTPUT ROUTING:", "OUTPUT LABELS:", "INPUT LABELS:">>

\* The section lists get_status is called with.
StatusCalls == {<<"VIDEO OUTPUT ROUTING:">>}

\* `if r is None or r.startswith('NAK'): return False` / `return True`
SetResult(resp) == IF resp = None \/ resp = NAK THEN "False" ELSE "True"

\* Outside code writes one item of a control container.
ControlWrite(cprop, i, v) ==
    /\ counts.ops < MaxCmds
    /\ i \in 0..(Len(World[cprop]) - 1)
    /\ v \in ValsOf(StateOf(cprop))
    /\ LET w == SetControlItem(World, cprop, i, v)
       IN Commit(w) /\ cmds' = w.cmds
    /\ counts' = [counts EXCEPT !.ops = @ + 1,
                                !.writes = IF Ready THEN @ + 1 ELSE @,
                                !.overlap = @ \/ Busy]
    /\ UNCHANGED <<read_coro, conns, discs, loops, devVars, transportVars>>

\* Outside code writes one item of a control container while the command
\* of an earlier write has not returned.
ControlWriteOverlap(cprop, i, v) ==
    /\ Busy
    /\ counts.ops < MaxCmds + MaxOverlap
    /\ i \in 0..(Len(World[cprop]) - 1)
    /\ v \in ValsOf(StateOf(cprop))
    /\ LET w == SetControlItem(World, cprop, i, v)
       IN Commit(w) /\ cmds' = w.cmds
    /\ counts' = [counts EXCEPT !.ops = @ + 1,
                                !.writes = IF Ready THEN @ + 1 ELSE @,
                                !.overlap = TRUE]
    /\ UNCHANGED <<read_coro, conns, discs, loops, devVars, transportVars>>

\* Outside code replaces a whole control container by a copy of the state
\* container with one item changed (crosspoint_control = some_list).
ControlAssign(cprop, i, v) ==
    /\ i \in 0..(Len(World[cprop]) - 1)
    /\ v \in ValsOf(StateOf(cprop))
    /\ World[cprop][i + 1] # v
    /\ counts.ops < MaxCmds
    /\ LET w == SetControlBulk(World, cprop, [World[StateOf(cprop)] EXCEPT ![i + 1] = v])
       IN Commit(w) /\ cmds' = w.cmds
    /\ counts' = [counts EXCEPT !.ops = @ + 1]
    /\ UNCHANGED <<read_coro, conns, discs, loops, devVars, transportVars>>

\* Outside code calls set_crosspoint / set_output_label / set_input_label,
\* which delegate to the batched form with one item.
CallSet(prop, i, v) ==
    /\ counts.ops < MaxCmds
    /\ i \in 0..(Len(World[prop]) - 1)
    /\ v \in ValsOf(prop)
    /\ cmds' = Append(cmds, NewCmd(prop, <<<<i, v>>>>))
    /\ counts' = [counts EXCEPT !.ops = @ + 1, !.calls = @ + 1,
                                !.overlap = @ \/ Busy]
    /\ Commit(World)
    /\ UNCHANGED <<read_coro, conns, discs, loops, devVars, transportVars>>

\* Outside code calls set_crosspoint / set_output_label / set_input_label
\* while an earlier command of the backend has not returned.
CallOverlap(prop, i, v) ==
    /\ Busy
    /\ counts.ops < MaxCmds + MaxOverlap
    /\ i \in 0..(Len(World[prop]) - 1)
    /\ v \in ValsOf(prop)
    /\ cmds' = Append(cmds, NewCmd(prop, <<<<i, v>>>>))
    /\ counts' = [counts EXCEPT !.ops = @ + 1, !.calls = @ + 1,
                                !.overlap = TRUE]
    /\ Commit(World)
    /\ UNCHANGED <<read_coro, conns, discs, loops, devVars, transportVars>>

\* args of Preset.recall cut down to the first stored item
RecallArgs_head(d) == <<d[1]>>

\* args = [(i, v) for i, v in self.crosspoints.items()]
RecallArgs(d) == [j \in 1..Len(d) |-> <<d[j][1], d[j][2]>>]

\* Preset.recall of preset k
Recall(k) ==
    /\ k \in 1..Len(presets)
    /\ counts.ops < MaxCmds
    /\ cmds' = IF Len(presets[k].crosspoints) = 0 THEN cmds
               ELSE Append(cmds, NewCmd("crosspoints",
                                        RecallArgs(presets[k].crosspoints)))
    /\ counts' = [counts EXCEPT !.ops = @ + 1, !.calls = @ + 1,
                                !.overlap = @ \/ Busy]
    /\ Commit(World)
    /\ UNCHANGED <<read_coro, conns, discs, loops, devVars, transportVars>>

\* Outside code calls get_status(*sections); no sections stands for the
\* default ones.
GetStatus(sections) ==
    /\ counts.status < MaxStatus
    /\ cmds' = Append(cmds, NewCmd("status",
                                   IF sections = <<>> THEN StatusSections ELSE sections))
    /\ counts' = [counts EXCEPT !.status = @ + 1, !.overlap = @ \/ Busy]
    /\ Commit(World)
    /\ UNCHANGED <<read_coro, conns, discs, loops, devVars, transportVars>>

\* A set_* coroutine once wait_for_response has run up to its next
\* suspension: it returned (leave the with block, compute the result) or it
\* is suspended in response_ready.wait().
CmdWaited(cmd, r) ==
    IF r.ret
    THEN LET w1 == release(r.w, cmd.prop)
         IN [w |-> w1,
             cmd |-> [cmd EXCEPT !.pc = IF w1.exc THEN "crashed" ELSE "done",
                                 !.res = IF w1.exc THEN None ELSE SetResult(r.resp),
                                 !.args = <<>>, !.conn = 0]]
    ELSE [w |-> r.w, cmd |-> [cmd EXCEPT !.pc = "blocked"]]

\* The device's container a command addresses, and whether it can apply it.
DevContainer(prop) ==
    CASE prop = "crosspoints" -> devRouting
      [] prop = "output_labels" -> devOutLabels
      [] prop = "input_labels" -> devInLabels

DevAccepts(cmd) ==
    \A j \in 1..Len(cmd.args) :
        /\ cmd.args[j][1] < Len(DevContainer(cmd.prop))
        /\ cmd.prop = "crosspoints" => cmd.args[j][2] \in InputVals

\* What the device reports for a status query.
StatusBlock(section) ==
    CASE section = "VIDEO OUTPUT ROUTING:" -> RoutingBlock(devRouting)
      [] section = "OUTPUT LABELS:" -> LabelBlock(section, devOutLabels)
      [] section = "INPUT LABELS:" -> LabelBlock(section, devInLabels)

\* The device receives a command block and answers on the same transport.
DeviceAnswers(cmd, outcome) ==
    IF ~IsSet(cmd)
    THEN /\ devQueue' = [devQueue EXCEPT ![client] = @ \o AckEcho(StatusBlock(cmd.args[1]))]
         /\ UNCHANGED <<devRouting, devOutLabels, devInLabels>>
    ELSE IF outcome = "nak"
    THEN /\ devQueue' = [devQueue EXCEPT ![client] = @ \o NakAnswer]
         /\ UNCHANGED <<devRouting, devOutLabels, devInLabels>>
    ELSE /\ devQueue' = [devQueue EXCEPT ![client] = @ \o AckEcho(FormatCmd(cmd.prop, cmd.args))]
         /\ devRouting' = IF cmd.prop = "crosspoints"
                          THEN ApplyArgs(devRouting, cmd.args, 1) ELSE devRouting
         /\ devOutLabels' = IF cmd.prop = "output_labels"
                            THEN ApplyArgs(devOutLabels, cmd.args, 1) ELSE devOutLabels
         /\ devInLabels' = IF cmd.prop = "input_labels"
                           THEN ApplyArgs(devInLabels, cmd.args, 1) ELSE devInLabels

\* A command task may run its send_to_client: it is new, it is between two
\* sends (get_status), or the connect() it awaits has returned.
SendReady(c) ==
    \/ cmds[c].pc \in {"new", "send"}
    \/ cmds[c].pc = "connecting" /\ conns[cmds[c].conn].pc = "done"

\* set_crosspoints / set_output_labels / set_input_labels / get_status from
\* their start (or from the return of connect()) through send_to_client, up
\* to the next suspension. outcome names what the transport and the device
\* do with a write: "ack", "nak", or "fail" (c.write raises).
CmdSend(c, outcome) ==
    /\ c \in DOMAIN cmds
    /\ SendReady(c)
    /\ LET cmd == cmds[c]
           w0 == IF cmd.pc = "new" /\ IsSet(cmd) THEN acquire(World, cmd.prop)
                 ELSE World
       IN IF cmd.pc # "connecting" /\ ~w0.connected
          THEN \* c = await self.connect(): up to the socket open
               /\ outcome = "connect"
               /\ opened < MaxConns
               /\ opened' = opened + 1
               /\ Commit([w0 EXCEPT !.connected = TRUE])
               /\ conns' = Append(conns, [pc |-> "opening", c |-> 0])
               /\ cmds' = [cmds EXCEPT ![c].pc = "connecting",
                                       ![c].conn = Len(conns) + 1]
               /\ UNCHANGED <<devVars, counts>>
          ELSE IF w0.client = 0
          THEN \* if not c: return
               /\ outcome = "nowrite"
               /\ IF IsSet(cmd)
                  THEN LET x == CmdWaited([cmd EXCEPT !.tx = "skipped"], WaitHead(w0))
                       IN /\ Commit(x.w)
                          /\ cmds' = [x.w.cmds EXCEPT ![c] = x.cmd]
                          /\ UNCHANGED <<conns, opened>>
                  ELSE IF Len(cmd.args) = 1 \/ w0.connected
                  THEN /\ Commit(w0)
                       /\ cmds' = [cmds EXCEPT ![c].pc = "done", ![c].args = <<>>,
                                               ![c].conn = 0]
                       /\ UNCHANGED <<conns, opened>>
                  ELSE /\ opened < MaxConns
                       /\ opened' = opened + 1
                       /\ Commit([w0 EXCEPT !.connected = TRUE])
                       /\ conns' = Append(conns, [pc |-> "opening", c |-> 0])
                       /\ cmds' = [cmds EXCEPT ![c].pc = "connecting",
                                               ![c].conn = Len(conns) + 1,
                                               ![c].args = Tail(@)]
               /\ UNCHANGED <<devVars, counts>>
          ELSE IF outcome = "fail"
          THEN \* except Exception: self.client = None; self.connected = False
               /\ \/ ~Usable(w0.client) /\ counts' = counts
                  \/ Usable(w0.client) /\ counts.errors < MaxErrors
                     /\ counts' = [counts EXCEPT !.errors = @ + 1]
               /\ Commit([w0 EXCEPT !.client = 0, !.connected = FALSE])
               /\ cmds' = [cmds EXCEPT
                     ![c].tx = "failed",
                     ![c].pc = IF IsSet(cmd) THEN "head"
                               ELSE IF Len(cmd.args) = 1 THEN "done" ELSE "send",
                     ![c].args = IF IsSet(cmd) THEN @ ELSE Tail(@),
                     ![c].conn = 0]
               /\ UNCHANGED <<conns, opened>>
               /\ UNCHANGED devVars
          ELSE /\ outcome \in {"ack", "nak"}
               /\ Usable(w0.client)
               /\ IF IsSet(cmd) THEN outcome = "ack" => DevAccepts(cmd)
                  ELSE outcome = "ack"
               /\ DeviceAnswers(cmd, outcome)
               /\ Commit(w0)
               /\ cmds' = [cmds EXCEPT
                     ![c].tx = "sent",
                     ![c].answer = IF outcome = "ack" THEN ACK ELSE NAK,
                     ![c].pc = IF IsSet(cmd) THEN "head"
                               ELSE IF Len(cmd.args) = 1 THEN "done" ELSE "send",
                     ![c].args = IF IsSet(cmd) THEN @ ELSE Tail(@),
                     ![c].conn = 0]
               /\ UNCHANGED <<conns, opened, counts>>
    /\ UNCHANGED <<read_coro, discs, loops, closes>>

\* A set_* coroutine resumes after c.write and enters wait_for_response.
CmdHead(c) ==
    /\ c \in DOMAIN cmds
    /\ cmds[c].pc = "head"
    /\ LET x == CmdWaited(cmds[c], WaitHead(World))
       IN Commit(x.w) /\ cmds' = [x.w.cmds EXCEPT ![c] = x.cmd]
    /\ UNCHANGED <<read_coro, conns, discs, loops, devVars, transportVars, counts>>

\* A set_* coroutine resumes from response_ready.wait().
CmdWake(c) ==
    /\ c \in DOMAIN cmds
    /\ cmds[c].pc = "woken"
    /\ LET x == CmdWaited(cmds[c], WaitWoken(World))
       IN Commit(x.w) /\ cmds' = [x.w.cmds EXCEPT ![c] = x.cmd]
    /\ UNCHANGED <<read_coro, conns, discs, loops, devVars, transportVars, counts>>

\* ------------------------------------------------- presets, device, shape
\* The values outputs_to_store takes: None, or a list of valid outputs.
OutputLists ==
    {AllOutputs, <<>>} \cup {<<o>> : o \in 0..(num_outputs - 1)}

\* The names a caller passes: none, or a name of the caller's own.
PresetNames == {None, "n"}

\* The integer indexes a caller passes, negative ones included.
StoreIndexes == (0 - MaxPresets)..MaxPresets

\* Outside code calls store_preset(outputs_to_store, name, index,
\* clear_current) with an integer index.
StoreNamed(outs, name, index, clear_current) ==
    /\ counts.stores < MaxStores
    /\ outs \in OutputLists
    /\ LET w == store_preset(World, outs, name, index, clear_current)
       IN Commit(w)
    /\ counts' = [counts EXCEPT !.stores = @ + 1]
    /\ UNCHANGED <<read_coro, cmds, conns, discs, loops, devVars, transportVars>>

\* Outside code calls store_preset(outputs_to_store, index=index,
\* clear_current=clear_current).
StorePreset(outs, index, clear_current) ==
    /\ index \in 0..(MaxPresets - 1)
    /\ StoreNamed(outs, None, index, clear_current)

\* Outside code calls store_preset(outputs_to_store, name,
\* clear_current=clear_current), leaving the index out.
StoreNext(outs, name, clear_current) ==
    /\ counts.stores < MaxStores
    /\ outs \in OutputLists
    /\ LET w == store_preset_next(World, outs, name, clear_current)
       IN Commit(w)
    /\ counts' = [counts EXCEPT !.stores = @ + 1]
    /\ UNCHANGED <<read_coro, cmds, conns, discs, loops, devVars, transportVars>>

\* Outside code calls add_preset(name).
AddPreset(name) ==
    /\ counts.stores < MaxStores
    /\ Commit(add_preset(World, name))
    /\ counts' = [counts EXCEPT !.stores = @ + 1]
    /\ UNCHANGED <<read_coro, cmds, conns, discs, loops, devVars, transportVars>>

\* Somebody changes a route at the device; the device reports the change
\* on every transport it has open.
Panel(o, i) ==
    /\ counts.panel < MaxPanel
    /\ devRouting[o + 1] # i
    /\ devRouting' = [devRouting EXCEPT ![o + 1] = i]
    /\ devQueue' = [c \in DOMAIN devQueue |->
                      IF closes[c] = 0
                      THEN devQueue[c] \o <<Hdr("VIDEO OUTPUT ROUTING:"),
                                             Line("pair", o, i), Blank>>
                      ELSE devQueue[c]]
    /\ counts' = [counts EXCEPT !.panel = @ + 1]
    /\ Commit(World)
    /\ UNCHANGED <<read_coro, cmds, conns, discs, loops, devOutLabels,
                   devInLabels, transportVars>>

\* Another client of the device renames all its outputs in one command;
\* the device reports the whole block on every transport it has open.
Rename(v) ==
    /\ counts.panel < MaxPanel
    /\ \E k \in DOMAIN devOutLabels : devOutLabels[k] # v
    /\ devOutLabels' = [k \in DOMAIN devOutLabels |-> v]
    /\ devQueue' = [c \in DOMAIN devQueue |->
                      IF closes[c] = 0
                      THEN devQueue[c] \o LabelBlock("OUTPUT LABELS:", devOutLabels')
                      ELSE devQueue[c]]
    /\ counts' = [counts EXCEPT !.panel = @ + 1]
    /\ Commit(World)
    /\ UNCHANGED <<read_coro, cmds, conns, discs, loops, devRouting,
                   devInLabels, transportVars>>

\* The lines a section can hold that its parser cannot take: text where
\* the index is expected ("x y"), an index past the container's end, and,
\* for a route, text where the input is expected ("0 y").
BadLines(header) ==
    {Line("text", "x", "y"), Line("pair", DevOutputs, 0)}
    \cup (IF header = "VIDEO OUTPUT ROUTING:" THEN {Line("label", 0, "y")} ELSE {})

\* The line of output 0 the device sends in a section of its own state.
GoodLine(header) ==
    IF header = "VIDEO OUTPUT ROUTING:" THEN Line("pair", 0, devRouting[1])
    ELSE Line("label", 0, devOutLabels[1])

\* The device (or whatever answers in its place) sends a section whose
\* first line is malformed and whose second line is well-formed, on every
\* transport it has open.
Garble(header, bad) ==
    /\ counts.garbles < MaxGarbles
    /\ bad \in BadLines(header)
    /\ \E c \in DOMAIN devQueue : closes[c] = 0
    /\ devQueue' = [c \in DOMAIN devQueue |->
                      IF closes[c] = 0
                      THEN devQueue[c] \o <<Hdr(header), bad, GoodLine(header), Blank>>
                      ELSE devQueue[c]]
    /\ counts' = [counts EXCEPT !.garbles = @ + 1]
    /\ Commit(World)
    /\ UNCHANGED <<read_coro, cmds, conns, discs, loops, devRouting, devOutLabels,
                   devInLabels, transportVars>>

\* The SmartScope backend connects (again): do_connect up to the start of
\* the read loop, against a device of n monitors that sends its handshake.
\* What the former transport still held is gone with it.
ScopeOpen(n) ==
    /\ scope.opens < MaxConns
    /\ n \in 1..MaxMonitors
    /\ scope.declared \in {0, n}
    /\ Commit([World EXCEPT !.scope =
            [scope EXCEPT !.prelude_parsed = FALSE, !.crashed = FALSE,
                          !.rx = ScopePrelude(n), !.declared = n,
                          !.opens = @ + 1]])
    /\ UNCHANGED <<read_coro, cmds, conns, discs, loops, devVars, transportVars,
                   counts>>

\* The SmartScope read loop reads the first m lines the device has sent and
\* parses them.
ScopeRead(m) ==
    /\ ~scope.crashed
    /\ m \in 1..Len(scope.rx)
    /\ Commit([World EXCEPT !.scope =
            [scope_parse_rx_bfr(scope, SubSeq(scope.rx, 1, m))
                EXCEPT !.rx = SubSeq(scope.rx, m + 1, Len(scope.rx))]])
    /\ UNCHANGED <<read_coro, cmds, conns, discs, loops, devVars, transportVars,
                   counts>>

\* After its handshake the SmartScope sends a monitor's section again (a
\* known or an unknown field), or the acknowledgment of a command.
ScopeUpdate(lines) ==
    /\ scope.updates < MaxUpdates
    /\ scope.opens > 0 /\ scope.rx = <<>>
    /\ Commit([World EXCEPT !.scope =
            [scope EXCEPT !.rx = lines, !.updates = @ + 1]])
    /\ UNCHANGED <<read_coro, cmds, conns, discs, loops, devVars, transportVars,
                   counts>>

\* The second SmartScope backend connects (once), against its own device
\* of n monitors, which sends its handshake.
PeerOpen(n) ==
    /\ scope.peer.opens = 0
    /\ n \in 1..MaxMonitors
    /\ Commit([World EXCEPT !.scope.peer =
            [scope.peer EXCEPT !.prelude_parsed = FALSE, !.crashed = FALSE,
                               !.rx = ScopePrelude(n), !.declared = n,
                               !.opens = @ + 1]])
    /\ UNCHANGED <<read_coro, cmds, conns, discs, loops, devVars, transportVars,
                   counts>>

\* The read loop of the second backend reads the first m lines its device
\* has sent and parses them; what the parser appends to SECTION_NAMES goes
\* to the list of the class.
PeerRead(m) ==
    /\ ~scope.peer.crashed
    /\ m \in 1..Len(scope.peer.rx)
    /\ LET r == scope_parse_rx_bfr(PeerBackend(scope), SubSeq(scope.peer.rx, 1, m))
       IN Commit([World EXCEPT !.scope =
            [scope EXCEPT !.SECTION_NAMES = r.SECTION_NAMES,
                          !.peer = [PeerFields(r) EXCEPT
                                      !.rx = SubSeq(scope.peer.rx, m + 1,
                                                    Len(scope.peer.rx))]]])
    /\ UNCHANGED <<read_coro, cmds, conns, discs, loops, devVars, transportVars,
                   counts>>

\* Outside code assigns num_outputs / num_inputs.
SetNumOutputs(n) ==
    /\ counts.resizes < MaxResizes
    /\ n # num_outputs
    /\ LET w == set_num_outputs(World, n)
       IN Commit(w) /\ cmds' = w.cmds
    /\ counts' = [counts EXCEPT !.resizes = @ + 1]
    /\ UNCHANGED <<read_coro, conns, discs, loops, devVars, transportVars>>

SetNumInputs(n) ==
    /\ counts.resizes < MaxResizes
    /\ n # num_inputs
    /\ LET w == set_num_inputs(World, n)
       IN Commit(w) /\ cmds' = w.cmds
    /\ counts' = [counts EXCEPT !.resizes = @ + 1]
    /\ UNCHANGED <<read_coro, conns, discs, loops, devVars, transportVars>>

\* ------------------------------------------------------------------- Next
Outcomes == {"connect", "nowrite", "ack", "nak", "fail"}
ControlProps == {"crosspoint_control", "output_label_control", "input_label_control"}
Indexes == 0..(MaxSize - 1)

ConnStep ==
    \E t \in DOMAIN conns :
        ConnStart(t) \/ ConnOpened(t) \/ ConnOpenFail(t) \/ ConnWake(t) \/ ConnSlept(t)
DiscStep == \E t \in DOMAIN discs : DiscStart(t) \/ DiscFinish(t)
LoopStep ==
    \E l \in DOMAIN loops :
        LoopExit(l) \/ LoopReadFail(l) \/ LoopRead(l)
CmdStep ==
    \E c \in DOMAIN cmds :
        (\E o \in Outcomes : CmdSend(c, o)) \/ CmdHead(c) \/ CmdWake(c)
Write ==
    \E cp \in ControlProps, i \in Indexes :
        \E v \in ValsOf(StateOf(cp)) : ControlWrite(cp, i, v)
Assign ==
    \E cp \in ControlProps, i \in Indexes :
        \E v \in ValsOf(StateOf(cp)) : ControlAssign(cp, i, v)
Call ==
    \E p \in StateProps, i \in Indexes :
        \E v \in ValsOf(p) : CallSet(p, i, v)
RouteWrite ==
    \E i \in Indexes, v \in InputVals :
        ControlWrite("crosspoint_control", i, v)
WriteOverlapStep ==
    \E i \in Indexes, v \in InputVals :
        ControlWriteOverlap("crosspoint_control", i, v)
OverlapStep ==
    \E i \in Indexes, v \in InputVals : CallOverlap("crosspoints", i, v)
StatusStep == \E sections \in StatusCalls : GetStatus(sections)
RecallStep == \E k \in 1..MaxPresets : Recall(k)
StoreStep ==
    \E outs \in OutputLists, index \in 0..(MaxPresets - 1), cc \in BOOLEAN :
        StorePreset(outs, index, cc)
StoreAnyStep ==
    \E outs \in OutputLists, name \in PresetNames, cc \in BOOLEAN :
        \/ \E index \in StoreIndexes : StoreNamed(outs, name, index, cc)
        \/ StoreNext(outs, name, cc)
AddStep == \E name \in PresetNames : AddPreset(name)
PanelStep == \E o \in 0..(DevOutputs - 1), i \in InputVals : Panel(o, i)
GarbleStep ==
    \E header \in {"VIDEO OUTPUT ROUTING:", "OUTPUT LABELS:"} :
        \E bad \in BadLines(header) : Garble(header, bad)
ScopeStep ==
    \/ \E n \in 1..MaxMonitors : ScopeOpen(n)
    \/ \E m \in 1..Len(scope.rx) : ScopeRead(m)
    \/ \E j \in 1..MaxMonitors, field \in {"Brightness", "Zoom"} :
          j <= scope.declared /\ ScopeUpdate(MonitorBlock(j, field, 7))
    \/ ScopeUpdate(<<AckLine, Blank>>)
PeerStep ==
    \/ \E n \in 1..MaxMonitors : PeerOpen(n)
    \/ \E m \in 1..Len(scope.peer.rx) : PeerRead(m)
PartStep ==
    \E l \in DOMAIN loops, c \in DOMAIN devQueue :
        \E k \in 1..(Len(devQueue[c]) - 1) : c = client /\ LoopReadPart(l, k)
RenameStep == \E v \in LabelVals : Rename(v)
ResizeStep == \E n \in 0..MaxSize : SetNumOutputs(n) \/ SetNumInputs(n)

\* Control surface: granular writes, bulk assignments, explicit calls and
\* device-side changes against a backend that connects on construction.
Next ==
    \/ ConnStep \/ LoopStep
    \/ Write \/ Assign \/ Call \/ CmdStep
    \/ PanelStep

Spec == Init /\ [][Next]_vars

\* Acknowledgments: set_* calls and status queries.
NextAck == ConnStep \/ LoopStep \/ Call \/ StatusStep \/ CmdStep

SpecAck == Init /\ [][NextAck]_vars

\* Presets: store, recall and device-side changes.
NextPreset ==
    \/ ConnStep \/ LoopStep
    \/ StoreStep \/ RecallStep \/ CmdStep
    \/ PanelStep

SpecPreset == Init /\ [][NextPreset]_vars

\* Topology: assignments to num_outputs / num_inputs, with presets bound.
NextShape == ConnStep \/ LoopStep \/ ResizeStep \/ StoreStep

SpecShape == Init /\ [][NextShape]_vars

\* The preset collection: add_preset and store_preset with every kind of
\* index and name, against a device whose routes change.
NextStore == ConnStep \/ LoopStep \/ AddStep \/ StoreAnyStep \/ PanelStep

SpecStore == Init /\ [][NextStore]_vars

\* Snapshots: store_preset on the first presets while routes change at the
\* device.
NextSnapshot == ConnStep \/ LoopStep \/ StoreStep \/ PanelStep

SpecSnapshot == Init /\ [][NextSnapshot]_vars

\* Malformed input: sections with a line the parser cannot take, while
\* routes change at the device.
NextGarble == ConnStep \/ LoopStep \/ GarbleStep \/ PanelStep

SpecGarble == Init /\ [][NextGarble]_vars

\* The SmartScope variant: handshakes, partial reads and later sections.
NextScope == ScopeStep

SpecScope == Init /\ [][NextScope]_vars

\* Two SmartScope backends in one process, each with a device of its own.
NextScopes == ScopeStep \/ PeerStep

SpecScopes == Init /\ [][NextScopes]_vars

\* Sending: explicit set_* calls and the tasks that serve them (the
\* connect tasks, the read loops and the commands).
NextSend == ConnStep \/ LoopStep \/ Call \/ CmdStep

SpecSend == Init /\ [][NextSend]_vars

\* Overlap: a second set_* call while the first has not returned.
NextPair == ConnStep \/ LoopStep \/ Call \/ OverlapStep \/ CmdStep

SpecPair == Init /\ [][NextPair]_vars

\* Control writes in succession: a granular write of crosspoint_control
\* and a second one while the command of the first has not returned.
NextWrites == ConnStep \/ LoopStep \/ RouteWrite \/ WriteOverlapStep \/ CmdStep

SpecWrites == Init /\ [][NextWrites]_vars

\* Batching: the read loop receives the device's stream in reads of any
\* size, while routes and labels change at the device.
NextChunk == ConnStep \/ LoopStep \/ PartStep \/ PanelStep \/ RenameStep

SpecChunk == Init /\ [][NextChunk]_vars

\* Connection lifecycle: disconnect() calls, transport errors and the
\* reconnect a command performs.
NextConn ==
    \/ ConnStep \/ LoopStep
    \/ Disconnect \/ DiscStep
    \/ Call \/ CmdStep

SpecConn == Init /\ [][NextConn]_vars

\* ------------------------------------------------------------------ C1
\* The last command submitted.
LastCmd(cs) == cs[Len(cs)]

\* C1: while the backend is Ready, a granular write crosspoint_control[i] = v
\* submits exactly one "VIDEO OUTPUT ROUTING:" command whose item list is
\* the single pair (i, v); a bulk assignment of crosspoint_control submits
\* no command.
C1_GranularWriteSubmitsOne ==
    [][\A i \in Indexes, v \in InputVals :
          /\ (Ready /\ ControlWrite("crosspoint_control", i, v))
                => /\ Len(cmds') = Len(cmds) + 1
                   /\ SubSeq(cmds', 1, Len(cmds)) = cmds
                   /\ LastCmd(cmds').prop = "crosspoints"
                   /\ HeaderOf(LastCmd(cmds').prop) = "VIDEO OUTPUT ROUTING:"
                   /\ LastCmd(cmds').args = <<<<i, v>>>>
                   /\ LastCmd(cmds').pc = "new"
          /\ ControlAssign("crosspoint_control", i, v) => cmds' = cmds]_vars

\* A granular write made while Ready has submitted its command.
C1_Witness ==
    /\ Ready
    /\ counts.writes = 1
    /\ Len(cmds) = 1
    /\ cmds[1].prop = "crosspoints"
    /\ cmds[1].pc = "new"
    /\ crosspoint_control # crosspoints

\* ------------------------------------------------------------------ C2
\* The set commands whose block was written to a transport.
Transmitted == Cardinality({c \in DOMAIN cmds : IsSet(cmds[c]) /\ cmds[c].tx = "sent"})

\* Every command coroutine has returned.
Quiet == ~Busy

\* C2 as stated: parsing device input, and mirroring what was parsed when a
\* command returns, submits no command, and over a run the
\* number of set commands transmitted equals the number of granular control
\* writes made while Ready plus the number of explicit set_* / recall calls.
C2_TransmittedEqualsRequested ==
    /\ [][LoopStep \/ CmdStep => Len(cmds') = Len(cmds)]_vars
    /\ [](Quiet => Transmitted = counts.writes + counts.calls)

\* C2, amended: parsing device input, and mirroring what was parsed when a
\* command returns, submits no command; the commands
\* submitted are one per granular control write made while Ready and one per
\* explicit set_* call, and each is transmitted at most once (not at all when
\* there is no transport or the write fails).
C2_ParserSubmitsNothing ==
    /\ [][LoopStep \/ CmdStep => Len(cmds') = Len(cmds)]_vars
    /\ [](/\ Len(cmds) = counts.writes + counts.calls
          /\ Transmitted <= Len(cmds)
          /\ Transmitted + Cardinality({c \in DOMAIN cmds : cmds[c].tx # "sent"})
                = counts.writes + counts.calls)

\* A granular write was transmitted, acknowledged and echoed, the echo was
\* parsed and mirrored into the control container, and no further command
\* came of it.
C2_Witness ==
    /\ Ready /\ Quiet
    /\ counts.writes = 1
    /\ Len(cmds) = 1
    /\ cmds[1].tx = "sent" /\ cmds[1].answer = ACK /\ cmds[1].res = "True"
    /\ devQueue[client] = <<>>
    /\ crosspoints = devRouting
    /\ crosspoint_control = crosspoints
    /\ crosspoints # [k \in 1..DevOutputs |-> (k - 1) % DevInputs]

\* ------------------------------------------------------------------ C5
\* C5 as stated: with at most one command in flight at a time, a set_* call
\* returns true if and only if the device answered that very command with a
\* line that does not start with NAK (a command the device rejected, or one
\* that got no answer, returns false). Runs in which a transport error lost
\* the device's answer are left out.
C5_ResultIsOwnAnswer ==
    (~counts.overlap /\ counts.errors = 0) =>
        \A c \in DOMAIN cmds :
            (IsSet(cmds[c]) /\ cmds[c].pc = "done")
                => (cmds[c].res = "True" <=> cmds[c].answer = ACK)

\* ------------------------------------------------------------------ C6
\* What the device has sent is ACK, an empty line, the routing header,
\* "<out> <in>" lines and an empty line.
RoutingAnswer(q) ==
    /\ Len(q) >= 5
    /\ q[1].k = "ack"
    /\ q[2].k = "blank"
    /\ q[3].k = "hdr" /\ q[3].a = "VIDEO OUTPUT ROUTING:"
    /\ \A j \in 4..(Len(q) - 1) : q[j].k = "pair"
    /\ q[Len(q)].k = "blank"

\* The (out, in) pairs of such an answer, in order.
PairsOf(q) == [j \in 1..(Len(q) - 4) |-> <<q[j + 3].a, q[j + 3].b>>]

\* Command c is suspended in wait_for_response.
Awaiting(c) == IsSet(cmds[c]) /\ cmds[c].pc = "blocked"

\* C6: a Ready backend with one command awaiting acknowledgment reads ACK,
\* an empty line, "VIDEO OUTPUT ROUTING:", "<out> <in>" lines and an empty
\* line: after parsing, crosspoints[out] = in for every such line, no other
\* entry has changed, and the awaiting command is resumed and receives the
\* ACK line.
C6_AckAndRoutingParsed ==
    [][/\ \A l \in DOMAIN loops :
            (/\ LoopRead(l)
             /\ Ready
             /\ Cardinality({c \in DOMAIN cmds : Awaiting(c)}) = 1
             /\ RoutingAnswer(devQueue[client]))
                => /\ crosspoints' = ApplyArgs(crosspoints, PairsOf(devQueue[client]), 1)
                   /\ ack_or_nak' = ACK
                   /\ \A c \in DOMAIN cmds : Awaiting(c) => cmds'[c].pc = "woken"
       /\ \A c \in DOMAIN cmds :
            (CmdWake(c) /\ IsSet(cmds[c]) /\ ack_or_nak = ACK)
                => cmds'[c].res = "True" /\ ack_or_nak' = None]_vars

\* The awaiting command has just been resumed by the parse of the device's
\* ACK and routing block, which changed a crosspoint.
C6_Witness ==
    /\ Ready
    /\ counts.status = 0
    /\ Len(cmds) = 1
    /\ cmds[1].prop = "crosspoints" /\ cmds[1].pc = "woken"
    /\ cmds[1].answer = ACK
    /\ ack_or_nak = ACK
    /\ devQueue[client] = <<>>
    /\ crosspoints = devRouting
    /\ crosspoints # [k \in 1..DevOutputs |-> (k - 1) % DevInputs]

\* ------------------------------------------------------------------ C3
\* Preset k's stored pairs all match the backend's crosspoints.
Matches(k) ==
    \A j \in 1..Len(presets[k].crosspoints) :
        /\ presets[k].crosspoints[j][1] < Len(crosspoints)
        /\ crosspoints[presets[k].crosspoints[j][1] + 1] = presets[k].crosspoints[j][2]

\* C3 as stated: whenever the backend is Ready and no command is in flight,
\* a preset is active if and only if it has at least one stored entry and
\* every stored pair matches the backend's crosspoints; a preset with no
\* stored entries is never active.
C3_ActiveIffMatches ==
    (Ready /\ Quiet) =>
        \A k \in DOMAIN presets :
            presets[k].active <=> (Len(presets[k].crosspoints) > 0 /\ Matches(k))

\* ------------------------------------------------------------------ C4
\* The dict d has an entry for every output of the backend.
FullCoverage(d) == num_outputs > 0 /\ DictKeys(d) = 0..(num_outputs - 1)

\* C4: a store with full output coverage captures the backend's crosspoints
\* X; a later recall submits exactly the stored pairs as one routing
\* command; and once the device's ACK and echo of that command are parsed,
\* crosspoints equal the stored X again, whatever they were in between.
C4_StoreRecallRoundTrip ==
    [][/\ \A index \in 0..(MaxPresets - 1), cc \in BOOLEAN :
            StorePreset(AllOutputs, index, cc)
                => /\ DictKeys(presets'[index + 1].crosspoints) = 0..(num_outputs - 1)
                   /\ \A o \in 0..(num_outputs - 1) :
                         DictGet(presets'[index + 1].crosspoints, o) = crosspoints[o + 1]
       /\ \A k \in DOMAIN presets :
            (Recall(k) /\ Len(presets[k].crosspoints) > 0)
                => /\ Len(cmds') = Len(cmds) + 1
                   /\ LastCmd(cmds').prop = "crosspoints"
                   /\ LastCmd(cmds').args = presets[k].crosspoints
       /\ \A l \in DOMAIN loops, c \in DOMAIN cmds :
            (/\ LoopRead(l)
             /\ Ready
             /\ cmds[c].prop = "crosspoints"
             /\ cmds[c].pc \in {"head", "blocked"}
             /\ cmds[c].answer = ACK
             /\ FullCoverage(cmds[c].args)
             /\ RoutingAnswer(devQueue[client])
             /\ PairsOf(devQueue[client]) = cmds[c].args)
                => \A o \in 0..(num_outputs - 1) :
                      crosspoints'[o + 1] = DictGet(cmds[c].args, o)]_vars

\* A preset stored with full coverage was recalled after the device's
\* routing had changed, and the parsed answer put the stored crosspoints
\* back.
C4_Witness ==
    /\ Ready /\ Quiet
    /\ counts.stores = 1 /\ counts.panel = 1 /\ counts.calls = 1
    /\ Len(presets) = 1
    /\ FullCoverage(presets[1].crosspoints)
    /\ \A o \in 0..(num_outputs - 1) :
          crosspoints[o + 1] = DictGet(presets[1].crosspoints, o)
    /\ crosspoints = [k \in 1..DevOutputs |-> (k - 1) % DevInputs]
    /\ devRouting = crosspoints
    /\ devQueue[client] = <<>>
    /\ cmds[1].tx = "sent" /\ cmds[1].res = "True"

\* ------------------------------------------------------------------ C7
\* C7 as stated: after any sequence of assignments to num_outputs and
\* num_inputs that leaves num_outputs different from num_inputs, the four
\* output containers have length num_outputs and the two input containers
\* have length num_inputs.
C7_ShapeInvariant ==
    (counts.resizes > 0 /\ num_outputs # num_inputs) =>
        /\ Len(crosspoints) = num_outputs
        /\ Len(output_labels) = num_outputs
        /\ Len(crosspoint_control) = num_outputs
        /\ Len(output_label_control) = num_outputs
        /\ Len(input_labels) = num_inputs
        /\ Len(input_label_control) = num_inputs

\* ------------------------------------------------------------------ C8
\* C8 as stated: immediately after num_outputs is set to a value N different
\* from the previous length of the output containers, crosspoints is N
\* zeros and output_labels is N empty strings.
C8_ResizeZeroes ==
    [][\A n \in 0..MaxSize :
          (/\ SetNumOutputs(n)
           /\ n # Len(crosspoints)
           /\ n # Len(output_labels))
              => /\ crosspoints' = Zeros(n)
                 /\ output_labels' = Empties(n)]_vars

\* ------------------------------------------------------------------ C9
\* C9 as stated: whenever a change of crosspoints, output_labels or their
\* control mirrors is delivered to an observer, crosspoints and
\* output_labels have the same length.
C9_ResizeAtomic ==
    \A s \in seen :
        s.prop \in {"crosspoints", "output_labels",
                    "crosspoint_control", "output_label_control"}
            => s.ncp = s.nol

\* ----------------------------------------------------------------- C10
\* C10 as stated: when a disconnect() call completes, connected is false,
\* the client handle is None, and close has been invoked exactly once on
\* every transport that was opened: never twice, and never zero times, also
\* when a read or write error had already torn the connection down.
C10_ClosedExactlyOnce ==
    [][\A t \in DOMAIN discs :
          (discs[t].pc # "done" /\ discs'[t].pc = "done")
              => /\ connected' = FALSE
                 /\ client' = 0
                 /\ \A c \in DOMAIN closes' : closes'[c] = 1]_vars

\* ------------------------------------------------------------------ C11
\* C11 as stated: store_preset called with a negative index fails (raises)
\* and leaves the preset collection as it was: no preset is created and no
\* existing preset's name, stored crosspoints or active flag changes.
C11_NegativeIndexRejected ==
    [][\A outs \in OutputLists, name \in PresetNames, cc \in BOOLEAN :
         \A index \in (0 - MaxPresets)..(0 - 1) :
            StoreNamed(outs, name, index, cc) =>
                /\ store_preset(World, outs, name, index, cc).exc
                /\ presets' = presets]_vars

\* ------------------------------------------------------------------ C12
\* C12 as stated: store_preset called without an index completes and
\* appends one new preset, whose index is the former len(presets), to the
\* collection, leaving the presets before it in place, and records the
\* snapshot in it (the new preset is the one stored into, hence active).
C12_NextIndexCreated ==
    [][\A outs \in OutputLists, name \in PresetNames, cc \in BOOLEAN :
         StoreNext(outs, name, cc) =>
            /\ ~store_preset_next(World, outs, name, cc).exc
            /\ Len(presets') = Len(presets) + 1
            /\ SubSeq(presets', 1, Len(presets)) = presets
            /\ presets'[Len(presets')].index = Len(presets)
            /\ presets'[Len(presets')].active]_vars

\* ------------------------------------------------------------------ C13
\* This step is the call store_preset(outs, name, index, cc): it is a call
\* of the preset interface, it leaves the presets that call leaves, and it
\* is that call in everything else.
Stored(outs, name, index, cc) ==
    /\ counts'.stores = counts.stores + 1
    /\ presets' = store_preset(World, outs, name, index, cc).presets
    /\ StoreNamed(outs, name, index, cc)

\* C13: every preset's index is its position in the collection; no step
\* makes the collection shorter; and a store_preset with an index k at or
\* beyond its length leaves exactly k + 1 presets, those between the old
\* end and k empty and inactive, the one at position k stored into (it
\* holds the requested outputs with the backend's inputs and is active).
C13_IndexesArePositions ==
    /\ [](\A j \in 1..Len(presets) : presets[j].index = j - 1)
    /\ [][/\ Len(presets') >= Len(presets)
          /\ \A outs \in OutputLists, name \in PresetNames, cc \in BOOLEAN :
               \A k \in 0..MaxPresets :
                  (k >= Len(presets) /\ Stored(outs, name, k, cc)) =>
                      /\ Len(presets') = k + 1
                      /\ SubSeq(presets', 1, Len(presets)) = presets
                      /\ \A j \in (Len(presets) + 1)..k :
                            /\ presets'[j].crosspoints = <<>>
                            /\ ~presets'[j].active
                      /\ presets'[k + 1].active
                      /\ \A o \in 0..(num_outputs - 1) :
                            IF outs = AllOutputs \/ outs = <<o>>
                            THEN /\ DictHas(presets'[k + 1].crosspoints, o)
                                 /\ DictGet(presets'[k + 1].crosspoints, o)
                                        = crosspoints[o + 1]
                            ELSE ~DictHas(presets'[k + 1].crosspoints, o)]_vars

\* One store_preset(index=2) on the empty collection of a Ready backend has
\* left three presets, the first two empty and inactive, the third stored.
C13_Witness ==
    /\ counts.stores = 1
    /\ Len(presets) = 3
    /\ presets[1].crosspoints = <<>> /\ ~presets[1].active
    /\ presets[2].crosspoints = <<>> /\ ~presets[2].active
    /\ Len(presets[3].crosspoints) = DevOutputs /\ presets[3].active

\* ------------------------------------------------------------------ C14
\* The outputs a store with outputs_to_store = outs records.
StoredSet(outs) ==
    IF outs = AllOutputs THEN 0..(num_outputs - 1)
    ELSE {outs[j] : j \in 1..Len(outs)}

\* C14: a store_preset call leaves in the preset it selects, for every
\* output o: the backend's crosspoints[o] if o is among the outputs stored
\* (all of 0..num_outputs-1 when none are given); otherwise the entry the
\* preset had before if clear_current is false and it had one; otherwise no
\* entry. The backend's crosspoints are not changed by the call.
C14_StoreMapping ==
    [][\A outs \in OutputLists, cc \in BOOLEAN :
         \A index \in 0..(MaxPresets - 1) :
            (/\ counts'.stores = counts.stores + 1
             /\ StorePreset(outs, index, cc)) =>
                LET k == index + 1
                    M == IF k <= Len(presets) THEN presets[k].crosspoints
                         ELSE <<>>
                    N == presets'[k].crosspoints
                IN /\ crosspoints' = crosspoints
                   /\ \A o \in 0..MaxSize :
                        IF o \in StoredSet(outs)
                        THEN DictHas(N, o) /\ DictGet(N, o) = crosspoints[o + 1]
                        ELSE IF ~cc /\ DictHas(M, o)
                        THEN DictHas(N, o) /\ DictGet(N, o) = DictGet(M, o)
                        ELSE ~DictHas(N, o)
                   /\ \A j, l \in 1..Len(N) : N[j][1] = N[l][1] => j = l]_vars

\* After a route changed at the device, a second store has left a preset
\* with an entry that follows the backend and an entry that does not: the
\* merge kept a value the backend no longer has.
C14_Witness ==
    /\ counts.stores = 2 /\ counts.panel = 1
    /\ Len(presets) = 1 /\ Len(crosspoints) = 2
    /\ Len(presets[1].crosspoints) = 2
    /\ \E o, p \in 0..1 :
          /\ o # p
          /\ crosspoints[o + 1] = devRouting[o + 1]
          /\ DictGet(presets[1].crosspoints, o) = crosspoints[o + 1]
          /\ DictGet(presets[1].crosspoints, p) # crosspoints[p + 1]

\* ------------------------------------------------------------------ C15
\* What the device received in a step, told by what it answered: the lines
\* it has added to the queue of the backend's transport.
Answered ==
    SubSeq(devQueue'[client], Len(devQueue[client]) + 1, Len(devQueue'[client]))

\* The parts of C15 that do not depend on the transport: a recall of a
\* preset without entries submits nothing and reaches no device; a recall
\* of a preset with entries submits one routing command carrying exactly
\* the stored pairs; when that command is written, the device receives one
\* "VIDEO OUTPUT ROUTING:" block whose pairs are the stored ones and no
\* route of another output changes; a command written once is not written
\* again; and no step other than a store changes a preset's name, index or
\* stored pairs.
RecallFrame ==
    /\ [](\A c \in DOMAIN cmds :
            cmds[c].tx = "sent" => cmds[c].pc \notin {"new", "send", "connecting"})
    /\ [][/\ \A k \in DOMAIN presets :
               Recall(k) =>
                 /\ devQueue' = devQueue /\ devRouting' = devRouting
                 /\ IF Len(presets[k].crosspoints) = 0 THEN cmds' = cmds
                    ELSE /\ Len(cmds') = Len(cmds) + 1
                         /\ SubSeq(cmds', 1, Len(cmds)) = cmds
                         /\ LastCmd(cmds').prop = "crosspoints"
                         /\ LastCmd(cmds').args = presets[k].crosspoints
          /\ \A c \in DOMAIN cmds :
               (/\ cmds[c].tx # "sent" /\ cmds'[c].tx = "sent"
                /\ cmds'[c].answer = ACK) =>
                 /\ RoutingAnswer(Answered)
                 /\ PairsOf(Answered) = cmds[c].args
                 /\ \A o \in 0..(DevOutputs - 1) :
                       devRouting'[o + 1] =
                           IF DictHas(cmds[c].args, o) THEN DictGet(cmds[c].args, o)
                           ELSE devRouting[o + 1]
          /\ counts'.stores = counts.stores =>
               /\ Len(presets') = Len(presets)
               /\ \A k \in DOMAIN presets :
                     /\ presets'[k].name = presets[k].name
                     /\ presets'[k].index = presets[k].index
                     /\ presets'[k].crosspoints = presets[k].crosspoints]_vars

\* C15 as stated: in addition, every recall of a preset with entries is
\* transmitted: the command it submitted has been written to the device by
\* the time it returns.
C15_RecallTransmitsOne ==
    /\ RecallFrame
    /\ [](\A c \in DOMAIN cmds : cmds[c].pc = "done" => cmds[c].tx = "sent")

\* C15, amended: the recall of a preset with entries submits exactly one
\* routing command, which is written at most once and, when written,
\* addresses exactly the stored pairs; it is not written at all when the
\* backend has no transport or the write raises. The other parts are as
\* stated.
C15_RecallAddressesStoredOnly ==
    /\ RecallFrame
    /\ [](\A c \in DOMAIN cmds :
            cmds[c].pc = "done" => cmds[c].tx \in {"sent", "skipped", "failed"})

\* A preset holding one of the two outputs was recalled and its command was
\* written and acknowledged: the device's route of the other output is not
\* the one the backend last knew, and stays so.
C15_Witness ==
    /\ counts.calls = 1 /\ counts.panel = 1
    /\ Len(cmds) = 1 /\ cmds[1].tx = "sent" /\ cmds[1].answer = ACK
    /\ cmds[1].pc = "head"
    /\ Len(presets) = 1 /\ Len(presets[1].crosspoints) = 1
    /\ cmds[1].args = presets[1].crosspoints
    /\ \E o \in 0..(DevOutputs - 1) :
          /\ ~DictHas(presets[1].crosspoints, o)
          /\ Len(crosspoints) = DevOutputs
          /\ devRouting[o + 1] # crosspoints[o + 1]

\* ------------------------------------------------------------------ C16
\* A line the parser of the section cannot take: its index is not a
\* number or is past the container's end, or (a route) its input is not a
\* number.
Malformed(line, header) ==
    \/ line.k = "text"
    \/ line.k = "pair" /\ line.a >= DevOutputs
    \/ line.k = "label" /\ header = "VIDEO OUTPUT ROUTING:"

\* The lines q end with a section of the given header that holds a line
\* the parser cannot take, followed by a well-formed line and the empty
\* line that closes the section.
EndsMalformed(q, header) ==
    /\ Len(q) >= 4
    /\ q[Len(q) - 3].k = "hdr" /\ q[Len(q) - 3].a = header
    /\ Malformed(q[Len(q) - 2], header)
    /\ q[Len(q) - 1].k \in {"pair", "label"}
    /\ q[Len(q)].k = "blank"

\* C16 as stated: when the read loop parses a batch that ends with a
\* section holding a malformed line, the line is skipped and the line after
\* it is still parsed (its route or label is taken over), the rendezvous
\* signal is raised, the read loop keeps running and connected stays true.
C16_MalformedLineSkipped ==
    [][\A l \in DOMAIN loops :
         \A header \in {"VIDEO OUTPUT ROUTING:", "OUTPUT LABELS:"} :
            (/\ Ready /\ Len(crosspoints) = DevOutputs
             /\ loops[l].pc = "run" /\ read_enabled
             /\ devQueue[client] # <<>> /\ devQueue'[client] = <<>>
             /\ EndsMalformed(devQueue[client], header)
             /\ LoopRead(l)) =>
                /\ loops'[l].pc = "run"
                /\ response_ready'
                /\ connected'
                /\ IF header = "VIDEO OUTPUT ROUTING:"
                   THEN crosspoints'[1] = devRouting[1]
                   ELSE output_labels'[1] = devOutLabels[1]]_vars

\* ------------------------------------------------------------------ C17
\* The names of the SmartScope's monitors.
MonitorNames == {scope.monitors[x].name : x \in 1..Len(scope.monitors)}

\* C17: once the handshake's "Monitors: n" is parsed, the headers
\* MONITOR A: .. MONITOR <n-th letter>: are recognized sections; monitors
\* have pairwise distinct names and there is exactly one for each monitor
\* section that has had a line, so that n exist once all n sections have had
\* one; a step creates a monitor only for a section that had none, and never
\* removes or renames one, whatever lines or handshakes follow.
C17_OneMonitorPerSection ==
    /\ [](/\ scope.num_monitors > 0 =>
               \A j \in 1..scope.num_monitors :
                  \E x \in 1..Len(scope.SECTION_NAMES) :
                     scope.SECTION_NAMES[x] = MonitorHeader(j)
          /\ \A x, y \in 1..Len(scope.monitors) :
               scope.monitors[x].name = scope.monitors[y].name => x = y
          /\ MonitorNames = scope.observed
          /\ scope.observed \subseteq {MonitorName(j) : j \in 1..scope.declared}
          /\ scope.observed = {MonitorName(j) : j \in 1..scope.declared} =>
               Len(scope.monitors) = scope.declared)
    /\ [][/\ Len(scope'.monitors) >= Len(scope.monitors)
          /\ \A x \in 1..Len(scope.monitors) :
               scope'.monitors[x].name = scope.monitors[x].name
          /\ \A x \in (Len(scope.monitors) + 1)..Len(scope'.monitors) :
               scope'.monitors[x].name \notin scope.observed]_vars

\* Both sections of a two-monitor SmartScope have been parsed in two
\* handshakes and a later section changed a monitor: two monitors exist.
C17_Witness ==
    /\ scope.opens = 2 /\ scope.declared = 2 /\ scope.updates = 1
    /\ scope.prelude_parsed /\ scope.rx = <<>> /\ ~scope.crashed
    /\ Len(scope.monitors) = 2
    /\ scope.monitors[1].name = "MONITOR A" /\ scope.monitors[2].name = "MONITOR B"
    /\ scope.monitors[1].brightness = 7

WriteFailed(c) == IF c \in DOMAIN cmds THEN cmds[c].tx = "failed" ELSE FALSE
ReturnedFalse(c) ==
    IF c \in DOMAIN cmds THEN cmds[c].pc = "done" /\ cmds[c].res = "False"
    ELSE FALSE

\* No task can take a step: every coroutine has returned or waits for
\* something that no other task will do. A run that has reached such a
\* state stays in it, however fairly the event loop schedules the tasks.
Quiescent == ~ENABLED <<NextSend>>_vars

\* C19 as stated: a command whose write raised leaves the backend
\* Disconnected (connected false, client None) until some connect() runs
\* again; it is not written again and no exception ends it; and it
\* returns False in the end: once no task can take a step any more, it has
\* returned False.
C19_WriteFailureReturnsFalse ==
    \A c \in DOMAIN cmds :
        cmds[c].tx = "failed" =>
            /\ cmds[c].pc \in {"head", "blocked", "woken", "done"}
            /\ (opened = 1 => ~connected /\ client = 0)
            /\ cmds[c].pc = "done" => cmds[c].res = "False"
            /\ Quiescent => ReturnedFalse(c)

\* ------------------------------------------------------------------ C20
\* C20: when the socket open of a connect() fails, the connect task
\* returns (it does not end with an exception, and it hands back no
\* transport), connected is false and client is None after the step, and
\* no read loop was started: the loops, read_coro and read_enabled are as
\* before, and no transport was added.
C20_OpenFailureContained ==
    [][\A t \in DOMAIN conns :
         ConnOpenFail(t) =>
            /\ conns'[t].pc = "done" /\ conns'[t].c = 0
            /\ ~connected' /\ client' = 0
            /\ loops' = loops /\ read_coro' = read_coro
            /\ read_enabled' = read_enabled
            /\ Len(closes') = Len(closes)]_vars

\* The constructor's connect task has returned from a failed socket open:
\* the backend is not connected, has no client and no read loop, and
\* create_async resolved to nothing.
C20_Witness ==
    /\ conns[1].pc = "done" /\ opened = 1 /\ counts.errors = 1
    /\ Len(conns) = 1 /\ closes = <<>> /\ loops = <<>>
    /\ ~connected /\ client = 0 /\ ~read_enabled
    /\ created = None

\* ------------------------------------------------------------------ C21
\* No read loop task is running.
LoopsStopped == \A l \in DOMAIN loops : loops[l].pc # "run"

\* C21 as stated: wait_for_response(prelude=False) terminates once an
\* ACK/NAK line has been captured or the read loop has stopped. When it
\* returns it hands back the captured line and empties the capture slot, or
\* hands back none when the read loop has stopped without one; and a call
\* that is suspended when the read loop stops is released: once no task can
\* take a step any more, no set_* call is left inside its wait while a line
\* is captured or the read loop is gone.
C21_WaitTerminates ==
    /\ [](\A c \in DOMAIN cmds :
            (/\ IsSet(cmds[c])
             /\ ack_or_nak # None \/ LoopsStopped
             /\ Quiescent)
                => cmds[c].pc \notin {"head", "blocked", "woken"})
    /\ [][\A c \in DOMAIN cmds :
            (IsSet(cmds[c]) /\ cmds[c].pc # "done" /\ cmds'[c].pc = "done")
                => IF ack_or_nak # None
                   THEN /\ cmds'[c].res = SetResult(ack_or_nak)
                        /\ ack_or_nak' = None
                   ELSE /\ cmds'[c].res = "False"
                        /\ ~read_enabled]_vars

\* ------------------------------------------------------------------ C22
\* Connect task t is inside wait_for_response(prelude=True).
Handshaking(t) == conns[t].pc \in {"blocked", "woken", "sleep"}

\* C22 as stated: connect() on a disconnected backend blocks until the
\* handshake terminator of its connection has been parsed or the read loop
\* has stopped. It never returns from its wait before prelude_parsed is
\* true while the read loop is enabled; and it does return when the read
\* loop stops during the handshake: once no task can take a step any more,
\* no connect() is left inside its wait with the read loop gone.
C22_ConnectAwaitsHandshake ==
    /\ [][\A t \in DOMAIN conns :
            (Handshaking(t) /\ conns'[t].pc = "done")
                => (prelude_parsed' \/ ~read_enabled')]_vars
    /\ [](\A t \in DOMAIN conns :
            (Handshaking(t) /\ LoopsStopped /\ Quiescent) => FALSE)

LoopEnded(c) == loops[c].pc \in {"done", "crashed"}

\* C24 as stated: during disconnect the transport is closed only after the
\* read loop has actually terminated: whenever a step closes a transport,
\* the read loop that reads from it has ended, so no read is in progress on
\* the handle and none is started on it afterwards (a loop that has ended
\* stays ended).
C24_ClosedAfterLoopEnded ==
    [][\A c \in DOMAIN closes :
          closes'[c] > closes[c] =>
              /\ LoopEnded(c)
              /\ loops'[c] = loops[c]]_vars

\* ------------------------------------------------------------------ C25
\* Command c is inside its `with self.emission_lock(...)` block: it has
\* entered it and has not left it.
InScope(c) ==
    IsSet(cmds[c]) /\ cmds[c].pc \in {"connecting", "head", "blocked", "woken"}

\* The notifications of container prop that observers were shown.
ShownOf(s, prop) == {e \in s : e.prop = prop}

\* Suppression for command c over one step: while c stays inside its
\* block no observer is shown a change of its container; when c leaves the
\* block at most one notification of the container is shown, and one is
\* shown if the container differs from what observers last saw (its
\* control mirror, which every delivered notification brings up to date).
Suppressed(c) ==
    /\ (InScope(c) /\ cmds'[c].pc \in {"connecting", "head", "blocked", "woken"})
            => ShownOf(seen', cmds[c].prop) = {}
    /\ (InScope(c) /\ cmds'[c].pc \in {"done", "crashed"})
            => /\ Cardinality(ShownOf(seen', cmds[c].prop)) <= 1
               /\ World[cmds[c].prop] # World[ControlOf(cmds[c].prop)]
                    => ShownOf(seen', cmds[c].prop) # {}

Mirrored(prop) ==
    CASE prop = "crosspoints" -> crosspoint_control = crosspoints
      [] prop = "output_labels" -> output_label_control = output_labels
      [] prop = "input_labels" -> input_label_control = input_labels

\* C26: whenever a step has delivered a change notification of
\* crosspoints, output_labels or input_labels to the observers (a granular
\* write of the parser, a bulk replacement, or the resize that an
\* assignment of num_outputs / num_inputs makes), the corresponding
\* *_control container equals the state container after the step.
C26_ControlMirrorsState ==
    \A prop \in StateProps : ShownOf(seen, prop) # {} => Mirrored(prop)

\* A granular control write was rejected by the device, which left
\* crosspoint_control different from crosspoints; then a route changed at
\* the device, the parser wrote it, and the notification brought the
\* control container back to the state.
C26_Witness ==
    /\ counts.writes = 1 /\ Len(cmds) = 1
    /\ cmds[1].prop = "crosspoints" /\ cmds[1].pc = "done"
    /\ cmds[1].res = "False" /\ cmds[1].answer = NAK
    /\ counts.panel = 1
    /\ ShownOf(seen, "crosspoints") # {}
    /\ crosspoint_control = crosspoints
    /\ crosspoints = devRouting

\* ------------------------------------------------------------------ C27
\* C27 as stated: in the SmartScope variant a blank line sets
\* prelude_parsed only when the current section is the section of the last
\* declared monitor and every monitor section of this handshake has been
\* observed, on a second handshake after a reconnect as well. Stated for
\* the reads that take one line: when such a read ends the prelude, the
\* line is blank, the section current before it is MONITOR <last letter>,
\* and nothing of the handshake is left to read.
C27_PreludeEndsAtLastMonitor ==
    [][(/\ ~scope.prelude_parsed /\ scope.prelude_parsed'
        /\ Len(scope.rx) > 0
        /\ scope.rx' = Tail(scope.rx))
            => /\ scope.rx[1].k = "blank"
               /\ scope.current_section = MonitorName(scope.num_monitors)
               /\ scope.rx' = <<>>]_vars

\* ------------------------------------------------------------------ C28
\* C28 as stated: in the SmartScope variant a blank line that does not end
\* the prelude is simply skipped. For a read whose first line is blank and
\* is not one that closes the monitor sections (a monitor section is
\* current and all declared monitors exist): the read loop keeps running
\* (no exception ends it), the rendezvous signal is raised, and the
\* backend is left as the remaining lines of the batch alone would leave
\* it; this includes a blank line read while no section is current.
C28_BlankLineSkipped ==
    [][LET m == Len(scope.rx) - Len(scope.rx')
       IN (/\ m >= 1
           /\ scope.opens' = scope.opens /\ scope.updates' = scope.updates
           /\ ~scope.crashed
           /\ scope.rx[1].k = "blank"
           /\ ~(/\ IsMonitorSection(scope.current_section)
                /\ Len(scope.monitors) = scope.num_monitors))
              => /\ ~scope.crashed'
                 /\ scope.response_ready'
                 /\ scope' = [scope_parse_rx_bfr(scope, SubSeq(scope.rx, 2, m))
                                EXCEPT !.rx = SubSeq(scope.rx, m + 1, Len(scope.rx))]]_vars

\* ------------------------------------------------------------------ C29
\* Command c has been transmitted and is inside wait_for_response.
AwaitingAck(c) ==
    /\ IsSet(cmds[c]) /\ cmds[c].tx = "sent"
    /\ cmds[c].pc \in {"head", "blocked", "woken"}

\* C29 as stated: when commands are issued only through granular writes
\* to the control containers, at most one command of the backend is
\* awaiting acknowledgment at any time, also when a second write is made
\* before the first has been acknowledged.
C29_OneCommandAwaiting ==
    Cardinality({c \in DOMAIN cmds : AwaitingAck(c)}) <= 1

\* ------------------------------------------------------------------ C30
\* No task of the overlapping-call runs can take a step.
QuiescentPair == ~ENABLED <<NextPair>>_vars

\* C30 as stated: when two set_* commands are in flight at the same time
\* and the device has answered each of them with ACK or NAK (no transport
\* error, no reconnect), every call that has returned has returned the
\* outcome of its own command (true for ACK, false for NAK), and both
\* calls return in the end: once no task can take a step any more, both
\* have returned.
C30_BothReturnOwnOutcome ==
    (/\ Len(cmds) = 2
     /\ counts.errors = 0 /\ opened = 1
     /\ \A c \in DOMAIN cmds : cmds[c].tx = "sent")
        => /\ \A c \in DOMAIN cmds :
                cmds[c].pc = "done" =>
                    (cmds[c].res = "True" <=> cmds[c].answer = ACK)
           /\ QuiescentPair => \A c \in DOMAIN cmds : cmds[c].pc = "done"

\* ------------------------------------------------------------------ C31
\* The read loop tasks that have been started and have not ended.
RunningLoops == {l \in DOMAIN loops : loops[l].pc = "run"}

\* C31 as stated: at most one read loop task is running at any time,
\* across any interleaving of connect, disconnect, send and transport
\* errors; in particular, after a write failure and a send that reconnects,
\* the read loop of the old transport is not left running next to the new
\* one and reading from the new transport.
C31_OneReadLoop == Cardinality(RunningLoops) <= 1

\* ------------------------------------------------------------------ C32
\* C32 as stated: the backend appears Ready (connected and prelude_parsed
\* both true) only after the handshake terminator of the current connection
\* has been parsed. After a disconnect or an I/O failure, and during a
\* later connect() up to the terminator of the new handshake (while the
\* socket is being opened and while the connect task waits for the
\* handshake with prelude_parsed not yet set by this connection), the pair
\* is never both true; so prelude_parsed implies connected in every state.
C32_ReadyAfterHandshake ==
    /\ prelude_parsed => connected
    /\ \A t \in DOMAIN conns : conns[t].pc = "opening" => ~Ready

\* ------------------------------------------------------------------ C33
\* Everything the device has sent on the current transport has been read
\* and parsed.
AllParsed == client # 0 /\ devQueue[client] = <<>>

\* C33 as stated: whenever the backend is Ready, no command is in flight
\* and all received input has been parsed, each control container equals
\* its state container; in particular, after a granular control write
\* whose command the device rejects with NAK, the control container does
\* not keep the rejected value.
C33_ControlEqualsConfirmed ==
    (Ready /\ ~Busy /\ AllParsed) =>
        /\ crosspoint_control = crosspoints
        /\ output_label_control = output_labels
        /\ input_label_control = input_labels

\* ------------------------------------------------------------------ C34
\* Two backends hold the same parsed state: routes, labels and the captured
\* acknowledgment.
SameParsed(a, b) ==
    /\ a.crosspoints = b.crosspoints
    /\ a.output_labels = b.output_labels
    /\ a.input_labels = b.input_labels
    /\ a.ack_or_nak = b.ack_or_nak

\* C34 as stated: the parsed state does not depend on how the device's line
\* stream is cut into reads. Whenever the read loop takes only the first k
\* lines of the pending stream, parsing the remaining lines in the next
\* read leaves the same crosspoints, output_labels, input_labels and
\* captured acknowledgment as one read of the whole stream would have; in
\* particular a labels or routing section that arrives in two consecutive
\* reads after the handshake is applied in full.
C34_BatchingIndependent ==
    [][\A l \in DOMAIN loops :
          \A k \in 1..(IF client = 0 THEN 0 ELSE Len(devQueue[client]) - 1) :
              LoopReadPart(l, k) =>
                  SameParsed(parse_rx_bfr(World', devQueue'[client']),
                             parse_rx_bfr(World, devQueue[client]))]_vars

\* ------------------------------------------------------------------ C35
\* `line in self.SECTION_NAMES` for a header line h on backend sc
Recognizes(sc, h) == \E x \in 1..Len(sc.SECTION_NAMES) : sc.SECTION_NAMES[x] = h

\* C35 as stated: the section headers a SmartScope backend recognizes
\* depend only on its own handshake. With two SmartScope backends in one
\* process, a backend that has parsed the Monitors line of its own device
\* recognizes the header of the j-th monitor only if that line declares at
\* least j monitors; a handshake declaring Monitors: 2 on one backend
\* never makes "MONITOR B:" a recognized section of a backend whose device
\* declared Monitors: 1.
C35_OwnSectionsOnly ==
    \A j \in 1..Len(Letters) :
        /\ (scope.num_monitors > 0 /\ Recognizes(scope, MonitorHeader(j)))
              => j <= scope.num_monitors
        /\ (scope.peer.num_monitors > 0
              /\ Recognizes(PeerBackend(scope), MonitorHeader(j)))
              => j <= scope.peer.num_monitors

=============================================================================
